---- MODULE Spec2Model ----
(***************************************************************************)
(* Verification model of the quest script tool chain of phantasmal-world:  *)
(* the control-flow-graph builder and the register value-set query, the    *)
(* object-code codec / assembler / disassembler round trips, and the       *)
(* quest runner that pumps the virtual machine.                            *)
(***************************************************************************)
EXTENDS Integers, Sequences, FiniteSets, TLC

VARIABLES
    segments,          \* input of create_control_flow_graph: InstructionSegment[]
    cfg_pc,            \* position inside create_control_flow_graph
    seg_idx,           \* next segment of the `for (const segment of segments)` loop
    cfg_blocks,        \* cfg.blocks
    cfg_instructions,  \* cfg.instructions: Map<Instruction, BasicBlock>
    label_blocks,      \* label_blocks: Map<number, BasicBlock>
    query,             \* last (instruction, register) handed to register_value_set
    result,            \* what that call produced
    removed,           \* the instruction taken out of `segments` after the query, if any
    before             \* what the query produced before that instruction was taken out

edit_vars == <<removed, before>>
cfg_vars == <<segments, cfg_pc, seg_idx, cfg_blocks, cfg_instructions, label_blocks,
              query, result, edit_vars>>

VARIABLES
    ir,                \* the Segment[] handed to write_bin
    orig_bytes,        \* the byte sequence handed to parse_bin
    corrupted,         \* whether orig_bytes differs from what write_bin produced
    bin,               \* result of parse_bin(orig_bytes)
    asm_manual_stack,  \* the flag of the disassemble / assemble pair
    asm,               \* result of disassemble: lines of characters
    assembled,         \* result of assemble: object_code, warnings, errors
    test_bytes,        \* result of writing object code back
    codec_pc           \* position in the round trip

codec_vars == <<ir, orig_bytes, corrupted, bin, asm_manual_stack, asm,
                assembled, test_bytes, codec_pc>>

VARIABLES
    quest,                 \* this.quest.object_code, with the line of each instruction
    vm_register,           \* the register the quest's switch_call reads
    vm,                    \* this.vm: the thread of the virtual machine
    animation_frame,       \* this.animation_frame: undefined, pending, or already run
    pending_frames,        \* animation frame callbacks requested and not yet run
    break_on_next,         \* this.break_on_next
    stepping_breakpoints,  \* this.stepping_breakpoints
    breakpoints,           \* asm_editor_store.breakpoints
    execution_location,    \* asm_editor_store.execution_location
    in_execution_loop,     \* execution_loop is on the call stack
    exec_result,           \* `result` of execution_loop
    vsync_returns,         \* WaitingVsync results since the thread reached its instruction
    step_request           \* the host's last request and the stop that answered it

runner_vars == <<quest, vm_register, vm, animation_frame, pending_frames, break_on_next,
                 stepping_breakpoints, breakpoints, execution_location,
                 in_execution_loop, exec_result, vsync_returns, step_request>>

VARIABLES
    current_quest,         \* quest_editor_store.current_quest is defined
    has_issues,            \* asm_editor_store.has_issues
    inline_args_mode,      \* this._inline_args_mode
    analyser_manual_stack, \* the manual_stack setting of assembly_analyser
    editor_model,          \* this._model: the text model and its version history
    undo_versions,         \* initial_version, current_version, last_version
    can_undo,              \* this.undo.can_undo
    can_redo,              \* this.undo.can_redo
    last_set               \* the set_inline_args_mode call that has just returned, if any

editor_vars == <<current_quest, has_issues, inline_args_mode, analyser_manual_stack,
                 editor_model, undo_versions, can_undo, can_redo, last_set>>

VARIABLES
    render_scheduled,        \* this.render_scheduled
    animation_frame_handle,  \* this.animation_frame_handle, 0 when undefined
    animation_frames,        \* handles of the call_render callbacks the browser holds
    frames_requested,        \* requestAnimationFrame calls made so far
    rendering_stopped,       \* stop_rendering() returned and start_rendering() was not called since
    rendered_while_stopped   \* render() was invoked while rendering_stopped

renderer_vars == <<render_scheduled, animation_frame_handle, animation_frames,
                   frames_requested, rendering_stopped, rendered_while_stopped>>

gui_vars == <<editor_vars, renderer_vars>>

(***************************************************************************)
(* Bounds of the explored inputs.                                          *)
(***************************************************************************)
Elems(seq) == {seq[x] : x \in DOMAIN seq}

MaxSegments == 2   \* segments per program
MaxInstr == 4      \* instructions per program, all segments together

\* Labels a branch operand may name; segment k carries label k - 1, so the
\* largest label never addresses a segment.
Labels == 0 .. MaxSegments
Registers == {0, 1}
Values == {1, 2}

(***************************************************************************)
(* Instructions.  An instruction is its opcode and the values of its       *)
(* arguments (args[k].value); an Instruction object is identified by the   *)
(* place it occupies: <<segment position, index in segment>>.              *)
(***************************************************************************)
Inst(op, args) == [opcode |-> op, args |-> args]

\* A table in which an arithmetic opcode counts as a load of its operand.
ImmediateLoadsAndArithmetic == {"leti", "letb", "letw", "leto", "addi"}

ImmediateLoads == {"leti", "letb", "letw", "leto"}

\* Programs that exercise the builder: every control-transfer class.
ControlAlphabet ==
    {Inst("nop", <<>>), Inst("ret", <<>>), Inst("jmp", <<0>>),
     Inst("jmp_e", <<0, 1, 2>>), Inst("call", <<1>>),
     Inst("switch_call", <<0, 1, 0>>)}

\* Programs that exercise the value-set query: loads, copies, an opaque
\* write, and the branches that create predecessors and cycles.
DataAlphabet ==
    {Inst("leti", <<0, v>>) : v \in Values}
    \cup {Inst("letw", <<1, 1>>)}
    \cup {Inst("let", <<0, 1>>), Inst("set", <<0>>)}
    \cup {Inst("jmp", <<l>>) : l \in Labels \ {MaxSegments}}
    \cup {Inst("jmp_e", <<0, 1, l>>) : l \in {1}}

\* Programs that exercise edge linking: a jump and a conditional jump with a
\* resolvable target (switch_jmp also names label 2, which only programs of
\* three segments define), and a call with two targets.
GraphAlphabet ==
    {Inst("nop", <<>>), Inst("ret", <<>>), Inst("jmp", <<1>>),
     Inst("switch_jmp", <<0, 0, 2>>), Inst("switch_call", <<0, 1, 0>>)}

SeqsUpTo(S, n) == UNION {[1 .. k -> S] : k \in 0 .. n}

\* A flat instruction list cut into segments at the positions `cuts`.
Cut(flat, cuts) ==
    [k \in 1 .. Len(cuts) + 1 |->
        [labels |-> <<k - 1>>,
         instructions |->
            SubSeq(flat,
                   (IF k = 1 THEN 0 ELSE cuts[k - 1]) + 1,
                   IF k = Len(cuts) + 1 THEN Len(flat) ELSE cuts[k])]]

Monotone(cuts) == \A k \in 1 .. Len(cuts) - 1 : cuts[k] <= cuts[k + 1]

Programs(alphabet) ==
    {Cut(flat, cuts) :
        <<flat, cuts>> \in
            {fc \in SeqsUpTo(alphabet, MaxInstr) \X SeqsUpTo(0 .. MaxInstr, MaxSegments - 1) :
                /\ \A k \in 1 .. Len(fc[2]) : fc[2][k] <= Len(fc[1])
                /\ Monotone(fc[2])}}

\* Programs whose instructions are taken out one at a time: loads, a copy,
\* an arithmetic instruction on the register the loads write, and a jump
\* that closes a cycle.
MaxEditInstr == 3      \* instructions of such a program
MaxEditSegments == 2   \* segments of such a program

EditAlphabet ==
    {Inst("leti", <<0, 1>>), Inst("letw", <<1, 1>>), Inst("let", <<0, 1>>),
     Inst("addi", <<0, 2>>), Inst("jmp", <<0>>), Inst("jmp_e", <<0, 1, 1>>)}

EditPrograms ==
    {Cut(flat, cuts) :
        <<flat, cuts>> \in
            {fc \in SeqsUpTo(EditAlphabet, MaxEditInstr)
                    \X SeqsUpTo(0 .. MaxEditInstr, MaxEditSegments - 1) :
                /\ \A k \in 1 .. Len(fc[2]) : fc[2][k] <= Len(fc[1])
                /\ Monotone(fc[2])}}

(***************************************************************************)
(* BasicBlock and ControlFlowGraph.  A block is referred to by its         *)
(* position in cfg.blocks; `from` and `to` hold such positions.            *)
(***************************************************************************)
BasicBlock(segment, start, end, branch_type, branch_labels) ==
    [segment |-> segment, start |-> start, end |-> end,
     branch_type |-> branch_type, branch_labels |-> branch_labels,
     from |-> <<>>, to |-> <<>>]

\* Mutation: the edge is recorded at its source only.
link_to_forward(blocks, this, other) ==
    [blocks EXCEPT ![this].to = Append(@, other)]

link_to(blocks, this, other) ==
    LET pushed == [blocks EXCEPT ![this].to = Append(@, other)]
    IN  [pushed EXCEPT ![other].from = Append(@, this)]

Tail1(s) == SubSeq(s, 2, Len(s))

ThreeArgJumps ==
    {"jmp_e", "jmpi_e", "jmp_ne", "jmpi_ne", "ujmp_g", "ujmpi_g", "jmp_g", "jmpi_g",
     "ujmp_l", "ujmpi_l", "jmp_l", "jmpi_l", "ujmp_ge", "ujmpi_ge", "jmp_ge", "jmpi_ge",
     "ujmp_le", "ujmpi_le", "jmp_le", "jmpi_le"}

\* Mutation: a switch_jmp or switch_call keeps only its first label.
ClassifyBranchFirstLabel(inst) ==
    CASE inst.opcode = "ret" -> <<"Return", <<>>>>
      [] inst.opcode = "jmp" -> <<"Jump", <<inst.args[1]>>>>
      [] inst.opcode \in {"jmp_on", "jmp_off"} -> <<"ConditionalJump", <<inst.args[1]>>>>
      [] inst.opcode \in ThreeArgJumps -> <<"ConditionalJump", <<inst.args[3]>>>>
      [] inst.opcode = "switch_jmp" -> <<"ConditionalJump", <<inst.args[2]>>>>
      [] inst.opcode \in {"call", "va_call"} -> <<"Call", <<inst.args[1]>>>>
      [] inst.opcode = "switch_call" -> <<"Call", <<inst.args[2]>>>>
      [] OTHER -> <<"default", <<>>>>

\* The explicit cases of the switch in create_basic_blocks: branch_type and
\* branch_labels, or "default" for all other opcodes.
ClassifyBranch(inst) ==
    CASE inst.opcode = "ret" -> <<"Return", <<>>>>
      [] inst.opcode = "jmp" -> <<"Jump", <<inst.args[1]>>>>
      [] inst.opcode \in {"jmp_on", "jmp_off"} -> <<"ConditionalJump", <<inst.args[1]>>>>
      [] inst.opcode \in ThreeArgJumps -> <<"ConditionalJump", <<inst.args[3]>>>>
      [] inst.opcode = "switch_jmp" -> <<"ConditionalJump", Tail1(inst.args)>>
      [] inst.opcode \in {"call", "va_call"} -> <<"Call", <<inst.args[1]>>>>
      [] inst.opcode = "switch_call" -> <<"Call", Tail1(inst.args)>>
      [] OTHER -> <<"default", <<>>>>

\* Mutation: the default case forgets the segment's final instruction.
ClassifyNoTail(inst, last) ==
    LET c == ClassifyBranch(inst)
    IN  IF c[1] = "default" THEN <<"continue", <<>>>> ELSE c

\* The whole switch; "continue" stands for the `continue` of the default case,
\* taken unless the instruction is the last of its segment (i === len - 1).
Classify(inst, last) ==
    LET c == ClassifyBranch(inst)
    IN  IF c[1] = "default"
        THEN (IF last THEN <<"None", <<>>>> ELSE <<"continue", <<>>>>)
        ELSE c

RECURSIVE SetLabels(_, _, _)
SetLabels(map, labels, block) ==
    IF labels = <<>> THEN map
    ELSE SetLabels([l \in DOMAIN map \cup {Head(labels)} |->
                        IF l = Head(labels) THEN block ELSE map[l]],
                   Tail(labels), block)

\* The body of the for loop of create_basic_blocks from index i on; `g` holds
\* cfg.blocks, cfg.instructions and label_blocks, `start` and `first_block`
\* the loop's locals.
RECURSIVE create_basic_blocks_from(_, _, _, _, _)
create_basic_blocks_from(g, s, i, start, first_block) ==
    LET segment == segments[s]
        len == Len(segment.instructions)
    IN  IF i >= len THEN g
        ELSE LET c == Classify(segment.instructions[i + 1], i = len - 1)
             IN  IF c[1] = "continue"
                 THEN create_basic_blocks_from(g, s, i + 1, start, first_block)
                 ELSE LET block == BasicBlock(s, start, i + 1, c[1], c[2])
                          b == Len(g.blocks) + 1
                          keys == {<<s, j>> : j \in block.start .. block.end - 1}
                          g2 == [blocks |-> Append(g.blocks, block),
                                 instructions |->
                                    [k \in DOMAIN g.instructions \cup keys |->
                                        IF k \in keys THEN b ELSE g.instructions[k]],
                                 label_blocks |->
                                    IF first_block
                                    THEN SetLabels(g.label_blocks, segment.labels, b)
                                    ELSE g.label_blocks]
                      IN  create_basic_blocks_from(g2, s, i + 1, i + 1, FALSE)

create_basic_blocks(g, s) == create_basic_blocks_from(g, s, 0, 0, TRUE)

(***************************************************************************)
(* Edge linking.  The recursion of link_returning_blocks has no visited    *)
(* set: it never returns exactly when a call for the same block is made    *)
(* while one is still active, and the engine then throws a RangeError      *)
(* (call stack exhausted).  `active` is the set of blocks with an active   *)
(* call; the outcome is the linked blocks or the overflow.                 *)
(***************************************************************************)
Linked(blocks) == [overflow |-> FALSE, blocks |-> blocks]
Overflow(blocks) == [overflow |-> TRUE, blocks |-> blocks]

RECURSIVE link_returning_blocks(_, _, _, _, _)
RECURSIVE link_returning_labels(_, _, _, _, _, _)

\* The for loop over block.branch_labels, from the labels `labels` on.
link_returning_labels(blocks, lb, ret, block, labels, active) ==
    IF labels = <<>> THEN Linked(blocks)
    ELSE LET label == Head(labels)
         IN  IF label \in DOMAIN lb
             THEN LET sub_block == lb[label]
                      b2 == IF blocks[sub_block].branch_type = "Return"
                            THEN link_to(blocks, sub_block, ret)
                            ELSE blocks
                      r == link_returning_blocks(b2, lb, ret, sub_block, active)
                  IN  IF r.overflow THEN r
                      ELSE link_returning_labels(r.blocks, lb, ret, block,
                                                 Tail(labels), active)
             ELSE link_returning_labels(blocks, lb, ret, block, Tail(labels), active)

link_returning_blocks(blocks, lb, ret, block, active) ==
    IF block \in active THEN Overflow(blocks)
    ELSE link_returning_labels(blocks, lb, ret, block, blocks[block].branch_labels,
                               active \cup {block})

RECURSIVE link_labels(_, _, _, _)
link_labels(blocks, lb, block, labels) ==
    IF labels = <<>> THEN blocks
    ELSE link_labels(IF Head(labels) \in DOMAIN lb
                     THEN link_to(blocks, block, lb[Head(labels)])
                     ELSE blocks,
                     lb, block, Tail(labels))

\* Mutation: a Jump block is given the fallthrough edge of a None block.
RECURSIVE link_blocks_jump_falls(_, _, _, _)
link_blocks_jump_falls(blocks, lb, i, callers) ==
    IF i > Len(blocks) THEN [blocks |-> blocks, callers |-> callers]
    ELSE LET block == blocks[i]
             has_next == i + 1 <= Len(blocks)
         IN  CASE block.branch_type = "Return" ->
                    link_blocks_jump_falls(blocks, lb, i + 1, callers)
               [] block.branch_type = "Call" ->
                    link_blocks_jump_falls(link_labels(blocks, lb, i, block.branch_labels),
                                           lb, i + 1,
                                           IF has_next THEN Append(callers, <<i, i + 1>>)
                                           ELSE callers)
               [] OTHER ->
                    link_blocks_jump_falls(
                        link_labels(IF has_next THEN link_to(blocks, i, i + 1) ELSE blocks,
                                    lb, i, block.branch_labels),
                        lb, i + 1, callers)

\* Mutation: a Call block is linked to the block that follows it.
RECURSIVE link_blocks_call_falls(_, _, _, _)
link_blocks_call_falls(blocks, lb, i, callers) ==
    IF i > Len(blocks) THEN [blocks |-> blocks, callers |-> callers]
    ELSE LET block == blocks[i]
             has_next == i + 1 <= Len(blocks)
         IN  CASE block.branch_type = "Return" ->
                    link_blocks_call_falls(blocks, lb, i + 1, callers)
               [] block.branch_type \in {"None", "ConditionalJump", "Call"} ->
                    link_blocks_call_falls(
                        link_labels(IF has_next THEN link_to(blocks, i, i + 1) ELSE blocks,
                                    lb, i, block.branch_labels),
                        lb, i + 1,
                        IF has_next /\ block.branch_type = "Call"
                        THEN Append(callers, <<i, i + 1>>) ELSE callers)
               [] OTHER ->
                    link_blocks_call_falls(link_labels(blocks, lb, i, block.branch_labels),
                                           lb, i + 1, callers)

\* Mutation: the next block counts only when it is in the same segment.
RECURSIVE link_blocks_in_segment(_, _, _, _)
link_blocks_in_segment(blocks, lb, i, callers) ==
    IF i > Len(blocks) THEN [blocks |-> blocks, callers |-> callers]
    ELSE LET block == blocks[i]
             has_next == i + 1 <= Len(blocks) /\ blocks[i + 1].segment = block.segment
         IN  CASE block.branch_type = "Return" ->
                    link_blocks_in_segment(blocks, lb, i + 1, callers)
               [] block.branch_type = "Call" ->
                    link_blocks_in_segment(link_labels(blocks, lb, i, block.branch_labels),
                                           lb, i + 1,
                                           IF has_next THEN Append(callers, <<i, i + 1>>)
                                           ELSE callers)
               [] block.branch_type \in {"None", "ConditionalJump"} ->
                    link_blocks_in_segment(
                        link_labels(IF has_next THEN link_to(blocks, i, i + 1) ELSE blocks,
                                    lb, i, block.branch_labels),
                        lb, i + 1, callers)
               [] OTHER ->
                    link_blocks_in_segment(link_labels(blocks, lb, i, block.branch_labels),
                                           lb, i + 1, callers)

\* The first loop of link_blocks from block i on; yields the blocks and the
\* `callers` pairs.
RECURSIVE link_blocks_from(_, _, _, _)
link_blocks_from(blocks, lb, i, callers) ==
    IF i > Len(blocks) THEN [blocks |-> blocks, callers |-> callers]
    ELSE LET block == blocks[i]
             has_next == i + 1 <= Len(blocks)
         IN  CASE block.branch_type = "Return" ->
                    link_blocks_from(blocks, lb, i + 1, callers)
               [] block.branch_type = "Call" ->
                    link_blocks_from(link_labels(blocks, lb, i, block.branch_labels),
                                     lb, i + 1,
                                     IF has_next THEN Append(callers, <<i, i + 1>>)
                                     ELSE callers)
               [] block.branch_type \in {"None", "ConditionalJump"} ->
                    link_blocks_from(
                        link_labels(IF has_next THEN link_to(blocks, i, i + 1) ELSE blocks,
                                    lb, i, block.branch_labels),
                        lb, i + 1, callers)
               [] OTHER ->
                    link_blocks_from(link_labels(blocks, lb, i, block.branch_labels),
                                     lb, i + 1, callers)

\* The second loop of link_blocks.
RECURSIVE link_callers(_, _, _)
link_callers(blocks, lb, callers) ==
    IF callers = <<>> THEN Linked(blocks)
    ELSE LET r == link_returning_blocks(blocks, lb, Head(callers)[2], Head(callers)[1], {})
         IN  IF r.overflow THEN r ELSE link_callers(r.blocks, lb, Tail(callers))

link_blocks(blocks, lb) ==
    LET first == link_blocks_from(blocks, lb, 1, <<>>)
    IN  link_callers(first.blocks, lb, first.callers)

(***************************************************************************)
(* ValueSet: singleton assignment, union and size, kept as a set of        *)
(* integers.                                                               *)
(***************************************************************************)
EmptyValueSet == {}
set_value(values, v) == {v}
union(values, other) == values \cup other
size(values) == Cardinality(values)

(***************************************************************************)
(* find_value_set.  The recursion is unguarded here too: a call never      *)
(* returns exactly when the same (block, end, register) is asked for       *)
(* while its own evaluation is active; the outcome is then the RangeError  *)
(* of the exhausted call stack instead of a ValueSet.                      *)
(***************************************************************************)
Returned(values) == [overflow |-> FALSE, values |-> values]
StackOverflow == [overflow |-> TRUE, values |-> {}]

RECURSIVE find_value_set_in(_, _, _, _, _, _)
RECURSIVE find_value_set_scan(_, _, _, _, _, _, _, _)
RECURSIVE find_value_set_preds(_, _, _, _, _, _)

\* The loop `for (let i = block.start; i < end; i++)` from index i on; `st`
\* is the local `values` so far, or the overflow.
find_value_set_scan(blocks, segs, block, end, register, i, st, active) ==
    IF st.overflow \/ i >= end THEN st
    ELSE LET instruction == segs[blocks[block].segment].instructions[i + 1]
             args == instruction.args
             next ==
                CASE instruction.opcode = "let" ->
                        IF args[1] = register
                        THEN find_value_set_in(blocks, segs, block, i, args[2], active)
                        ELSE st
                  [] instruction.opcode \in ImmediateLoads ->
                        IF args[1] = register
                        THEN Returned(set_value(st.values, args[2]))
                        ELSE st
                  [] OTHER -> st
         IN  find_value_set_scan(blocks, segs, block, end, register, i + 1, next, active)

\* The loop `for (const from of block.from)` over the predecessors `from`.
find_value_set_preds(blocks, segs, from, register, st, active) ==
    IF st.overflow \/ from = <<>> THEN st
    ELSE LET r == find_value_set_in(blocks, segs, Head(from), blocks[Head(from)].end,
                                    register, active)
         IN  find_value_set_preds(blocks, segs, Tail(from), register,
                                  IF r.overflow THEN r
                                  ELSE Returned(union(st.values, r.values)),
                                  active)

\* find_value_set called while the calls in `active` are being evaluated.
find_value_set_in(blocks, segs, block, end, register, active) ==
    IF <<block, end, register>> \in active THEN StackOverflow
    ELSE LET now == active \cup {<<block, end, register>>}
             scanned == find_value_set_scan(blocks, segs, block, end, register,
                                            blocks[block].start, Returned(EmptyValueSet), now)
         IN  IF scanned.overflow THEN scanned
             ELSE IF size(scanned.values) = 0
                  THEN find_value_set_preds(blocks, segs, blocks[block].from, register,
                                            scanned, now)
                  ELSE scanned

find_value_set(blocks, segs, block, end, register) ==
    find_value_set_in(blocks, segs, block, end, register, {})

\* Mutation: an instruction that is not a key of cfg.instructions makes the
\* query fail.
register_value_set_strict(blocks, instructions, segs, instruction, register) ==
    IF instruction \in DOMAIN instructions
    THEN find_value_set(blocks, segs, instructions[instruction],
                        IF blocks[instructions[instruction]].segment = instruction[1]
                        THEN instruction[2]
                        ELSE blocks[instructions[instruction]].end,
                        register)
    ELSE StackOverflow

\* `instruction` is <<segment position, index>>; an instruction that is not a
\* key of cfg.instructions yields the empty ValueSet.
register_value_set(blocks, instructions, segs, instruction, register) ==
    IF instruction \in DOMAIN instructions
    THEN LET block == instructions[instruction]
             inst_idx == IF /\ blocks[block].segment = instruction[1]
                            /\ instruction[2] \in blocks[block].start .. blocks[block].end - 1
                         THEN instruction[2]
                         ELSE blocks[block].end
         IN  find_value_set(blocks, segs, block, inst_idx, register)
    ELSE Returned(EmptyValueSet)

(***************************************************************************)
(* create_control_flow_graph as a process: one step per create_basic_blocks *)
(* call of its loop, one for link_blocks; afterwards the graph is queried. *)
(***************************************************************************)
NoQuery == [instruction |-> <<0, 0>>, register |-> 0]
NoEdit == [done |-> FALSE]

InitGraph ==
    /\ cfg_pc = "create"
    /\ seg_idx = 1
    /\ cfg_blocks = <<>>
    /\ cfg_instructions = <<>>
    /\ label_blocks = <<>>
    /\ query = NoQuery
    /\ result = Returned(EmptyValueSet)
    /\ removed = NoEdit
    /\ before = Returned(EmptyValueSet)

CreateBasicBlocks ==
    /\ cfg_pc = "create"
    /\ seg_idx <= Len(segments)
    /\ LET g == create_basic_blocks([blocks |-> cfg_blocks,
                                     instructions |-> cfg_instructions,
                                     label_blocks |-> label_blocks], seg_idx)
       IN  /\ cfg_blocks' = g.blocks
           /\ cfg_instructions' = g.instructions
           /\ label_blocks' = g.label_blocks
    /\ seg_idx' = seg_idx + 1
    /\ UNCHANGED <<segments, cfg_pc, query, result, edit_vars>>
    /\ UNCHANGED <<codec_vars, runner_vars, gui_vars>>

LinkBlocks ==
    /\ cfg_pc = "create"
    /\ seg_idx > Len(segments)
    /\ LET r == link_blocks(cfg_blocks, label_blocks)
       IN  /\ cfg_pc' = IF r.overflow THEN "RangeError" ELSE "done"
           /\ cfg_blocks' = r.blocks
    /\ UNCHANGED <<segments, seg_idx, cfg_instructions, label_blocks, query, result, edit_vars>>
    /\ UNCHANGED <<codec_vars, runner_vars, gui_vars>>

AllInstructions ==
    UNION {{<<s, j>> : j \in 0 .. Len(segments[s].instructions) - 1} :
            s \in 1 .. Len(segments)}

\* One query per built graph: register_value_set reads the graph only.
RegisterValueSet ==
    /\ cfg_pc = "done"
    /\ query = NoQuery
    /\ \E instruction \in AllInstructions, register \in Registers :
        /\ query' = [instruction |-> instruction, register |-> register]
        /\ result' = register_value_set(cfg_blocks, cfg_instructions, segments,
                                        instruction, register)
    /\ UNCHANGED <<segments, cfg_pc, seg_idx, cfg_blocks, cfg_instructions, label_blocks, edit_vars>>
    /\ UNCHANGED <<codec_vars, runner_vars, gui_vars>>

\* An Instruction object that belongs to no segment of the program.
ForeignInstruction == <<Len(segments) + 1, 0>>

\* register_value_set called with an instruction the graph was not built from.
QueryForeignInstruction ==
    /\ cfg_pc = "done"
    /\ query = NoQuery
    /\ \E register \in Registers :
        /\ query' = [instruction |-> ForeignInstruction, register |-> register]
        /\ result' = register_value_set(cfg_blocks, cfg_instructions, segments,
                                        ForeignInstruction, register)
    /\ UNCHANGED <<segments, cfg_pc, seg_idx, cfg_blocks, cfg_instructions, label_blocks, edit_vars>>
    /\ UNCHANGED <<codec_vars, runner_vars, gui_vars>>

\* The opcodes that the switch of find_value_set has a case for.
ResolvingOpcodes == {"let", "leti", "letb", "letw", "leto"}

\* The opcodes that end a block.
BlockEndingOpcodes ==
    {"ret", "jmp", "jmp_on", "jmp_off", "switch_jmp", "call", "va_call", "switch_call"}
    \cup ThreeArgJumps

\* `segs` without the instruction k = <<segment position, index>>.
without(segs, k) ==
    [segs EXCEPT ![k[1]].instructions =
        SubSeq(@, 1, k[2]) \o SubSeq(@, k[2] + 2, Len(@))]

\* The place of instruction `instruction` once instruction k is taken out.
moved(instruction, k) ==
    IF instruction[1] = k[1] /\ instruction[2] > k[2]
    THEN <<instruction[1], instruction[2] - 1>>
    ELSE instruction

\* The program is edited after a query: an instruction that find_value_set
\* has no case for, and that ends no block, is taken out, and the graph is
\* built anew from the edited segments.
RemoveInstruction ==
    /\ cfg_pc = "done"
    /\ query # NoQuery
    /\ removed = NoEdit
    /\ \E k \in AllInstructions \ {query.instruction} :
        /\ segments[k[1]].instructions[k[2] + 1].opcode
               \notin ResolvingOpcodes \cup BlockEndingOpcodes
        /\ removed' = [done |-> TRUE, instruction |-> k,
                       alone |-> Len(segments[k[1]].instructions) = 1]
        /\ segments' = without(segments, k)
        /\ query' = [query EXCEPT !.instruction = moved(@, k)]
    /\ before' = result
    /\ cfg_pc' = "create"
    /\ seg_idx' = 1
    /\ cfg_blocks' = <<>>
    /\ cfg_instructions' = <<>>
    /\ label_blocks' = <<>>
    /\ UNCHANGED result
    /\ UNCHANGED <<codec_vars, runner_vars, gui_vars>>

\* The query is repeated on the graph of the edited program.
QueryAgain ==
    /\ cfg_pc = "done"
    /\ removed # NoEdit
    /\ result' = register_value_set(cfg_blocks, cfg_instructions, segments,
                                    query.instruction, query.register)
    /\ cfg_pc' = "compared"
    /\ UNCHANGED <<segments, seg_idx, cfg_blocks, cfg_instructions, label_blocks,
                   query, edit_vars>>
    /\ UNCHANGED <<codec_vars, runner_vars, gui_vars>>

(***************************************************************************)
(* Opcode table (the part the explored programs use): numeric code, with   *)
(* the escape byte 0xF8 selecting the second code page, and the ordered    *)
(* argument types.  "labels" is a variadic tail of label references and    *)
(* "stack" the operands of a call that takes its arguments either from     *)
(* preceding arg_push instructions or inline after the opcode.             *)
(***************************************************************************)
Opcodes ==
    [ret         |-> [code |-> <<1>>,        params |-> <<>>],
     va_start    |-> [code |-> <<5>>,        params |-> <<>>],
     va_end      |-> [code |-> <<6>>,        params |-> <<>>],
     va_call     |-> [code |-> <<7>>,        params |-> <<"label">>],
     switch_jmp  |-> [code |-> <<64>>,       params |-> <<"reg", "labels">>],
     arg_pushl   |-> [code |-> <<73>>,       params |-> <<"dword">>],
     arg_pushw   |-> [code |-> <<75>>,       params |-> <<"word">>],
     set_episode |-> [code |-> <<248, 188>>, params |-> <<"stack">>]]

Mnemonics == DOMAIN Opcodes
EscapeBytes == {248, 249}
Variadic == {"labels", "stack"}
PushOpcodes == {"arg_pushl", "arg_pushw"}

\* Number of leading fixed parameters of an opcode.
FixedParams(op) ==
    LET ps == Opcodes[op].params
    IN  IF ps # <<>> /\ ps[Len(ps)] \in Variadic THEN Len(ps) - 1 ELSE Len(ps)
HasTail(op) == FixedParams(op) < Len(Opcodes[op].params)
TailType(op) == Opcodes[op].params[Len(Opcodes[op].params)]

\* Type of the k-th argument of an instruction of opcode op.
ArgType(op, k) == IF k <= FixedParams(op) THEN Opcodes[op].params[k] ELSE TailType(op)

Width(type) ==
    CASE type \in {"reg", "byte"} -> 1
      [] type \in {"word", "label", "labels"} -> 2
      [] OTHER -> 4

(***************************************************************************)
(* Binary codec.  A segment is a header (kind, labels, element count) and  *)
(* its elements; an instruction is its opcode code, its fixed arguments at *)
(* the widths the table gives (little endian) and, for a variadic tail, a  *)
(* count byte and the tail arguments.                                      *)
(***************************************************************************)
RECURSIVE LittleEndian(_, _)
LittleEndian(n, width) ==
    IF width = 0 THEN <<>> ELSE <<n % 256>> \o LittleEndian(n \div 256, width - 1)

RECURSIVE FromLittleEndian(_)
FromLittleEndian(bs) ==
    IF bs = <<>> THEN 0 ELSE Head(bs) + 256 * FromLittleEndian(Tail(bs))

RECURSIVE FromBigEndian(_, _)
FromBigEndian(bs, acc) ==
    IF bs = <<>> THEN acc ELSE FromBigEndian(Tail(bs), 256 * acc + Head(bs))

\* read_value with the byte order reversed.
read_value_big_endian(bs) == FromBigEndian(bs, 0)

\* A dword is a signed 32-bit integer.
read_value(bs) ==
    IF Len(bs) = 4 /\ bs[4] >= 128
    THEN FromLittleEndian(SubSeq(bs, 1, 3)) + 65536 * 256 * (bs[4] - 256)
    ELSE FromLittleEndian(bs)

RECURSIVE Concat(_)
Concat(seqs) == IF seqs = <<>> THEN <<>> ELSE Head(seqs) \o Concat(Tail(seqs))

KindCode == [Instructions |-> 0, Data |-> 1, String |-> 2]

\* write_instruction leaving the inline arguments of a stack call out.
write_instruction_bare(inst) ==
    Opcodes[inst.opcode].code
    \o Concat([k \in 1 .. FixedParams(inst.opcode) |->
                    LittleEndian(inst.args[k], Width(ArgType(inst.opcode, k)))])
    \o (IF HasTail(inst.opcode) /\ TailType(inst.opcode) = "stack"
        THEN <<0>>
        ELSE IF HasTail(inst.opcode)
        THEN <<Len(inst.args) - FixedParams(inst.opcode)>>
             \o Concat([k \in 1 .. Len(inst.args) - FixedParams(inst.opcode) |->
                            LittleEndian(inst.args[FixedParams(inst.opcode) + k],
                                         Width(TailType(inst.opcode)))])
        ELSE <<>>)

write_instruction(inst) ==
    LET op == inst.opcode
        n == FixedParams(op)
    IN  Opcodes[op].code
        \o Concat([k \in 1 .. n |-> LittleEndian(inst.args[k], Width(ArgType(op, k)))])
        \o (IF HasTail(op)
            THEN <<Len(inst.args) - n>>
                 \o Concat([k \in 1 .. Len(inst.args) - n |->
                                LittleEndian(inst.args[n + k], Width(TailType(op)))])
            ELSE <<>>)

write_segment(segment) ==
    <<KindCode[segment.type], Len(segment.labels)>>
    \o Concat([k \in 1 .. Len(segment.labels) |-> LittleEndian(segment.labels[k], 2)])
    \o (CASE segment.type = "Instructions" ->
                <<Len(segment.instructions)>>
                \o Concat([k \in 1 .. Len(segment.instructions) |->
                                write_instruction(segment.instructions[k])])
          [] segment.type = "Data" -> <<Len(segment.data)>> \o segment.data
          [] OTHER ->
                <<Len(segment.value)>>
                \o Concat([k \in 1 .. Len(segment.value) |->
                                LittleEndian(segment.value[k], 2)]))

write_bin(object_code) ==
    Concat([k \in 1 .. Len(object_code) |-> write_segment(object_code[k])])

Invalid == [ok |-> FALSE]

\* F applied to the value of e: e is evaluated once, as a `const` is.
Bind(e, F(_)) == CHOOSE v \in {F(x) : x \in {e}} : TRUE

\* The bytes bs[pos .. pos + n - 1].
Slice(bs, pos, n) == [k \in 1 .. n |-> bs[pos + k - 1]]

\* Reads count values of the given width starting at pos.
read_values(bs, pos, count, width) ==
    IF pos + count * width - 1 > Len(bs)
    THEN Invalid
    ELSE [ok |-> TRUE,
          values |-> [k \in 1 .. count |->
                        read_value(Slice(bs, pos + (k - 1) * width, width))],
          next |-> pos + count * width]

RECURSIVE parse_fixed_args(_, _, _, _, _)
parse_fixed_args(bs, pos, op, k, args) ==
    IF k > FixedParams(op)
    THEN [ok |-> TRUE, values |-> args, next |-> pos]
    ELSE Bind(read_values(bs, pos, 1, Width(ArgType(op, k))),
              LAMBDA r : IF ~r.ok THEN Invalid
                         ELSE parse_fixed_args(bs, r.next, op, k + 1, args \o r.values))

parse_tail(bs, op, fixed) ==
    IF ~HasTail(op)
    THEN [ok |-> TRUE, value |-> Inst(op, fixed.values), next |-> fixed.next]
    ELSE IF fixed.next > Len(bs) THEN Invalid
    ELSE Bind(read_values(bs, fixed.next + 1, bs[fixed.next], Width(TailType(op))),
              LAMBDA tail :
                IF ~tail.ok THEN Invalid
                ELSE [ok |-> TRUE,
                      value |-> Inst(op, fixed.values \o tail.values),
                      next |-> tail.next])

parse_instruction(bs, pos) ==
    LET code == IF bs[pos] \in EscapeBytes
                THEN IF pos + 1 > Len(bs) THEN <<>> ELSE <<bs[pos], bs[pos + 1]>>
                ELSE <<bs[pos]>>
        known == {op \in Mnemonics : Opcodes[op].code = code}
    IN  IF known = {} THEN Invalid
        ELSE Bind(CHOOSE o \in known : TRUE,
                  LAMBDA op :
                    Bind(parse_fixed_args(bs, pos + Len(Opcodes[op].code), op, 1, <<>>),
                         LAMBDA fixed : IF ~fixed.ok THEN Invalid
                                        ELSE parse_tail(bs, op, fixed)))

RECURSIVE parse_instructions(_, _, _, _)
parse_instructions(bs, pos, count, acc) ==
    IF count = 0 THEN [ok |-> TRUE, values |-> acc, next |-> pos]
    ELSE IF pos > Len(bs) THEN Invalid
    ELSE Bind(parse_instruction(bs, pos),
              LAMBDA r :
                IF ~r.ok THEN Invalid
                ELSE parse_instructions(bs, r.next, count - 1, Append(acc, r.value)))

parse_body(bs, kind, labels) ==
    LET count == bs[labels.next]
        body == labels.next + 1
    IN  CASE kind = 0 ->
                Bind(parse_instructions(bs, body, count, <<>>),
                     LAMBDA r :
                        IF ~r.ok THEN Invalid
                        ELSE [ok |-> TRUE, next |-> r.next,
                              value |-> [type |-> "Instructions",
                                         labels |-> labels.values,
                                         instructions |-> r.values]])
          [] kind = 1 ->
                Bind(read_values(bs, body, count, 1),
                     LAMBDA r :
                        IF ~r.ok THEN Invalid
                        ELSE [ok |-> TRUE, next |-> r.next,
                              value |-> [type |-> "Data",
                                         labels |-> labels.values,
                                         data |-> r.values]])
          [] OTHER ->
                Bind(read_values(bs, body, count, 2),
                     LAMBDA r :
                        IF ~r.ok THEN Invalid
                        ELSE [ok |-> TRUE, next |-> r.next,
                              value |-> [type |-> "String",
                                         labels |-> labels.values,
                                         value |-> r.values]])

parse_segment(bs, pos) ==
    IF pos + 1 > Len(bs) \/ bs[pos] \notin {0, 1, 2} THEN Invalid
    ELSE Bind(read_values(bs, pos + 2, bs[pos + 1], 2),
              LAMBDA labels :
                IF ~labels.ok \/ labels.next > Len(bs) THEN Invalid
                ELSE parse_body(bs, bs[pos], labels))

RECURSIVE parse_segments(_, _, _)
parse_segments(bs, pos, acc) ==
    IF pos > Len(bs) THEN [ok |-> TRUE, object_code |-> acc]
    ELSE Bind(parse_segment(bs, pos),
              LAMBDA r : IF ~r.ok THEN Invalid
                         ELSE parse_segments(bs, r.next, Append(acc, r.value)))

parse_bin(bs) == parse_segments(bs, 1, <<>>)

(***************************************************************************)
(* Assembly text: a sequence of lines, each a sequence of UTF-16 code      *)
(* units.                                                                  *)
(***************************************************************************)
\* UTF-16 code units of the characters the text is made of.
CharCode ==
    "a" :> 97 @@ "b" :> 98 @@ "c" :> 99 @@ "d" :> 100 @@ "e" :> 101 @@ "f" :> 102 @@
    "g" :> 103 @@ "h" :> 104 @@ "i" :> 105 @@ "j" :> 106 @@ "k" :> 107 @@ "l" :> 108 @@
    "m" :> 109 @@ "n" :> 110 @@ "o" :> 111 @@ "p" :> 112 @@ "q" :> 113 @@ "r" :> 114 @@
    "s" :> 115 @@ "t" :> 116 @@ "u" :> 117 @@ "v" :> 118 @@ "w" :> 119 @@ "x" :> 120 @@
    "y" :> 121 @@ "z" :> 122 @@ "0" :> 48 @@ "1" :> 49 @@ "2" :> 50 @@ "3" :> 51 @@
    "4" :> 52 @@ "5" :> 53 @@ "6" :> 54 @@ "7" :> 55 @@ "8" :> 56 @@ "9" :> 57 @@
    " " :> 32 @@ "." :> 46 @@ ":" :> 58 @@ "," :> 44 @@ "_" :> 95 @@ "\"" :> 34 @@ "-" :> 45

Text(cs) == [k \in 1 .. Len(cs) |-> CharCode[cs[k]]]
Space == CharCode[" "]
Comma == CharCode[","]
Colon == CharCode[":"]
Dot == CharCode["."]
Quote == CharCode["\""]
Minus == CharCode["-"]

MnemonicText ==
    [ret         |-> Text(<<"r", "e", "t">>),
     va_start    |-> Text(<<"v", "a", "_", "s", "t", "a", "r", "t">>),
     va_end      |-> Text(<<"v", "a", "_", "e", "n", "d">>),
     va_call     |-> Text(<<"v", "a", "_", "c", "a", "l", "l">>),
     switch_jmp  |-> Text(<<"s", "w", "i", "t", "c", "h", "_", "j", "m", "p">>),
     arg_pushl   |-> Text(<<"a", "r", "g", "_", "p", "u", "s", "h", "l">>),
     arg_pushw   |-> Text(<<"a", "r", "g", "_", "p", "u", "s", "h", "w">>),
     set_episode |-> Text(<<"s", "e", "t", "_", "e", "p", "i", "s", "o", "d", "e">>)]

Indent == <<Space, Space, Space, Space>>
CodeDirective == Text(<<".", "c", "o", "d", "e">>)
DataDirective == Text(<<".", "d", "a", "t", "a">>)
StringDirective == Text(<<".", "s", "t", "r", "i", "n", "g">>)
Directive(type) ==
    CASE type = "Instructions" -> CodeDirective
      [] type = "Data" -> DataDirective
      [] OTHER -> StringDirective

RECURSIVE Digits(_)
Digits(n) ==
    IF n < 0 THEN <<Minus>> \o Digits(-n)
    ELSE IF n < 10 THEN <<CharCode["0"] + n>>
    ELSE Digits(n \div 10) \o <<CharCode["0"] + (n % 10)>>

RECURSIVE Join(_, _)
Join(parts, sep) ==
    IF parts = <<>> THEN <<>>
    ELSE IF Len(parts) = 1 THEN parts[1]
    ELSE parts[1] \o sep \o Join(Tail(parts), sep)

arg_to_string(type, value) ==
    IF type = "reg" THEN <<CharCode["r"]>> \o Digits(value) ELSE Digits(value)

\* instruction_line printing the fixed operands only.
instruction_line_fixed(op, args) ==
    Indent \o MnemonicText[op]
    \o (IF FixedParams(op) = 0 \/ args = <<>> THEN <<>>
        ELSE <<Space>> \o Join([k \in 1 .. FixedParams(op) |->
                                arg_to_string(ArgType(op, k), args[k])],
                               <<Comma, Space>>))

\* One instruction line: indentation, mnemonic and the comma separated
\* operands in order.
instruction_line(op, args) ==
    Indent \o MnemonicText[op]
    \o (IF args = <<>> THEN <<>>
        ELSE <<Space>> \o Join([k \in 1 .. Len(args) |->
                                arg_to_string(ArgType(op, k), args[k])],
                             <<Comma, Space>>))

IsStackCall(op) == HasTail(op) /\ TailType(op) = "stack"

pending_lines(stack) ==
    [k \in 1 .. Len(stack) |-> instruction_line(stack[k].opcode, <<stack[k].value>>)]

(***************************************************************************)
(* disassemble.  With manual_stack the arguments of a stack call are       *)
(* printed as arg_push lines ahead of the bare call; without it they are   *)
(* printed inline after the mnemonic, whichever way the object code holds  *)
(* them.  Inside a va list (va_start .. va_end) instructions are printed   *)
(* as they are.  stack holds the arg_push instructions not yet printed.    *)
(***************************************************************************)
\* is_held without the va list exception.
is_held_everywhere(op, manual_stack, in_va_list) ==
    ~manual_stack /\ op \in PushOpcodes

\* Whether an arg_push instruction is held back to be printed inline with
\* the call that follows it.
is_held(op, manual_stack, in_va_list) ==
    ~manual_stack /\ ~in_va_list /\ op \in PushOpcodes

RECURSIVE disassemble_instructions(_, _, _, _, _, _)
disassemble_instructions(instructions, k, manual_stack, in_va_list, stack, lines) ==
    IF k > Len(instructions) THEN lines \o pending_lines(stack)
    ELSE LET inst == instructions[k]
             op == inst.opcode
             va == IF op = "va_start" THEN TRUE
                   ELSE IF op = "va_end" THEN FALSE ELSE in_va_list
         IN  IF is_held(op, manual_stack, in_va_list)
             THEN disassemble_instructions(instructions, k + 1, manual_stack, va,
                        Append(stack, [opcode |-> op, value |-> inst.args[1]]), lines)
             ELSE IF IsStackCall(op) /\ ~manual_stack
             THEN disassemble_instructions(instructions, k + 1, manual_stack, va, <<>>,
                        Append(lines,
                               instruction_line(op,
                                    [j \in 1 .. Len(stack) |-> stack[j].value]
                                    \o inst.args)))
             ELSE IF IsStackCall(op)
             THEN disassemble_instructions(instructions, k + 1, manual_stack, va, <<>>,
                        lines
                        \o [j \in 1 .. Len(inst.args) |->
                                instruction_line("arg_pushl", <<inst.args[j]>>)]
                        \o <<instruction_line(op, <<>>)>>)
             ELSE disassemble_instructions(instructions, k + 1, manual_stack, va, <<>>,
                        (lines \o pending_lines(stack))
                        \o <<instruction_line(op, inst.args)>>)

label_lines(labels) == [k \in 1 .. Len(labels) |-> Digits(labels[k]) \o <<Colon>>]

data_line(data) ==
    Indent \o Join([k \in 1 .. Len(data) |-> Digits(data[k])], <<Space>>)

string_line(value) == Indent \o <<Quote>> \o value \o <<Quote>>

segment_lines(segment, manual_stack) ==
    label_lines(segment.labels)
    \o (CASE segment.type = "Instructions" ->
                disassemble_instructions(segment.instructions, 1, manual_stack,
                                         FALSE, <<>>, <<>>)
          [] segment.type = "Data" -> <<data_line(segment.data)>>
          [] OTHER -> <<string_line(segment.value)>>)
    \o << <<>> >>

\* The section directive is printed when the segment kind changes.
RECURSIVE disassemble_from(_, _, _, _)
disassemble_from(object_code, k, manual_stack, section) ==
    IF k > Len(object_code) THEN <<>>
    ELSE LET segment == object_code[k]
         IN  (IF segment.type # section
              THEN <<Directive(segment.type), <<>> >> ELSE <<>>)
             \o segment_lines(segment, manual_stack)
             \o disassemble_from(object_code, k + 1, manual_stack, segment.type)

disassemble(object_code, manual_stack) ==
    disassemble_from(object_code, 1, manual_stack, "None")

(***************************************************************************)
(* assemble.  Pass 1 reads the lines in order: directives switch the       *)
(* section, a label line opens a segment (label lines that immediately     *)
(* follow it add labels to that segment), other lines add content to the   *)
(* last segment.                                                           *)
(* Pass 2 resolves label operands.  An error is fatal only to the          *)
(* statement that produced it.                                             *)
(***************************************************************************)
IsDigit(c) == c \in CharCode["0"] .. CharCode["9"]
DigitValue(c) == c - CharCode["0"]
IsNumber(cs) == cs # <<>> /\ \A k \in 1 .. Len(cs) : IsDigit(cs[k])

RECURSIVE ParseNat(_, _)
ParseNat(cs, acc) ==
    IF cs = <<>> THEN acc ELSE ParseNat(Tail(cs), 10 * acc + DigitValue(Head(cs)))

RECURSIVE StripLeft(_)
StripLeft(cs) == IF cs # <<>> /\ Head(cs) = Space THEN StripLeft(Tail(cs)) ELSE cs

\* Splits cs at every occurrence of the character sep.
RECURSIVE Split(_, _, _, _)
Split(cs, sep, current, parts) ==
    IF cs = <<>> THEN Append(parts, current)
    ELSE IF Head(cs) = sep THEN Split(Tail(cs), sep, <<>>, Append(parts, current))
    ELSE Split(Tail(cs), sep, Append(current, Head(cs)), parts)

parse_operand(cs) ==
    IF Len(cs) > 1 /\ cs[1] = CharCode["r"] /\ IsNumber(Tail(cs))
    THEN [ok |-> TRUE, kind |-> "reg", value |-> ParseNat(Tail(cs), 0)]
    ELSE IF IsNumber(cs)
    THEN [ok |-> TRUE, kind |-> "int", value |-> ParseNat(cs, 0)]
    ELSE IF Len(cs) > 1 /\ cs[1] = Minus /\ IsNumber(Tail(cs))
    THEN [ok |-> TRUE, kind |-> "int", value |-> -ParseNat(Tail(cs), 0)]
    ELSE [ok |-> FALSE, kind |-> "none", value |-> 0]

\* Whether value fits the width of the type.
Fits(type, value) ==
    CASE Width(type) = 1 -> value \in 0 .. 255
      [] Width(type) = 2 -> value \in 0 .. 65535
      [] OTHER -> TRUE

operand_fits(op, k, operand) ==
    /\ operand.ok
    /\ operand.kind = (IF ArgType(op, k) = "reg" THEN "reg" ELSE "int")
    /\ Fits(ArgType(op, k), operand.value)

\* assemble_instruction staging the operands of a stack call under either
\* flag.
assemble_instruction_manual(op, operands, manual_stack) ==
    IF Len(operands) < FixedParams(op)
       \/ (~HasTail(op) /\ Len(operands) > FixedParams(op))
    THEN [ok |-> FALSE, message |-> "Wrong number of arguments."]
    ELSE IF \E k \in 1 .. Len(operands) : ~operand_fits(op, k, operands[k])
    THEN [ok |-> FALSE, message |-> "Invalid argument."]
    ELSE IF IsStackCall(op)
    THEN [ok |-> TRUE,
          instructions |->
                [k \in 1 .. Len(operands) |-> Inst("arg_pushl", <<operands[k].value>>)]
                \o <<Inst(op, <<>>)>>]
    ELSE [ok |-> TRUE,
          instructions |-> <<Inst(op, [k \in 1 .. Len(operands) |-> operands[k].value])>>]

\* The instructions a statement with this mnemonic and these operands
\* assembles to, or an error.
assemble_instruction(op, operands, manual_stack) ==
    LET args == [k \in 1 .. Len(operands) |-> operands[k].value]
    IN  IF Len(operands) < FixedParams(op)
           \/ (~HasTail(op) /\ Len(operands) > FixedParams(op))
        THEN [ok |-> FALSE, message |-> "Wrong number of arguments."]
        ELSE IF \E k \in 1 .. Len(operands) : ~operand_fits(op, k, operands[k])
        THEN [ok |-> FALSE, message |-> "Invalid argument."]
        ELSE IF IsStackCall(op) /\ manual_stack
        THEN [ok |-> TRUE,
              instructions |->
                    [k \in 1 .. Len(args) |-> Inst("arg_pushl", <<args[k]>>)]
                    \o <<Inst(op, <<>>)>>]
        ELSE [ok |-> TRUE, instructions |-> <<Inst(op, args)>>]

\* The text after the mnemonic, split at the commas.
operand_texts(body, mnemonic) ==
    LET rest == SubSeq(body, Len(mnemonic) + 2, Len(body))
    IN  IF rest = <<>> THEN <<>> ELSE Split(rest, Comma, <<>>, <<>>)

parse_instruction_line(cs, manual_stack) ==
    Bind(StripLeft(cs), LAMBDA body :
    Bind(Split(body, Space, <<>>, <<>>)[1], LAMBDA mnemonic :
    Bind(operand_texts(body, mnemonic), LAMBDA raw :
    Bind([k \in DOMAIN raw |-> parse_operand(StripLeft(raw[k]))], LAMBDA operands :
        LET known == {op \in Mnemonics : MnemonicText[op] = mnemonic}
        IN  IF known = {} THEN [ok |-> FALSE, message |-> "Unknown instruction."]
            ELSE assemble_instruction(CHOOSE o \in known : TRUE, operands,
                                      manual_stack)))))

parse_data_line(cs) ==
    Bind(Split(StripLeft(cs), Space, <<>>, <<>>), LAMBDA words :
        IF \A k \in 1 .. Len(words) : IsNumber(words[k]) /\ ParseNat(words[k], 0) < 256
        THEN [ok |-> TRUE, data |-> [k \in 1 .. Len(words) |-> ParseNat(words[k], 0)]]
        ELSE [ok |-> FALSE, message |-> "Invalid data."])

parse_string_line(cs) ==
    Bind(StripLeft(cs), LAMBDA body :
        IF Len(body) >= 2 /\ body[1] = Quote /\ body[Len(body)] = Quote
        THEN [ok |-> TRUE, value |-> SubSeq(body, 2, Len(body) - 1)]
        ELSE [ok |-> FALSE, message |-> "Invalid string."])

AssemblyError(line, message) == [line |-> line, message |-> message]

new_segment(type, label) ==
    CASE type = "Instructions" ->
            [type |-> type, labels |-> <<label>>, instructions |-> <<>>, lines |-> <<>>]
      [] type = "Data" -> [type |-> type, labels |-> <<label>>, data |-> <<>>]
      [] OTHER -> [type |-> type, labels |-> <<label>>, value |-> <<>>]

DefinedLabels(object_code) ==
    UNION {Elems(object_code[k].labels) : k \in 1 .. Len(object_code)}

add_error(st, line, message) ==
    [st EXCEPT !.errors = Append(@, AssemblyError(line, message))]

parse_directive(st, line, cs) ==
    LET types == {t \in {"Instructions", "Data", "String"} : Directive(t) = cs}
    IN  IF types = {} THEN add_error(st, line, "Unknown section.")
        ELSE LET type == CHOOSE t \in types : TRUE
             IN  [st EXCEPT !.section = type,
                            !.warnings = IF st.section = type
                                         THEN Append(@, AssemblyError(line,
                                                    "Unnecessary section marker."))
                                         ELSE @]

parse_label(st, line, cs) ==
    LET label == ParseNat(SubSeq(cs, 1, Len(cs) - 1), 0)
        n == Len(st.object_code)
    IN  IF st.section = "None" THEN add_error(st, line, "Expected a section.")
        ELSE IF label \in DefinedLabels(st.object_code)
        THEN add_error(st, line, "Duplicate label.")
        ELSE IF st.open
        THEN [st EXCEPT !.object_code[n].labels = Append(@, label)]
        ELSE [st EXCEPT !.object_code = Append(@, new_segment(st.section, label)),
                        !.open = TRUE]

parse_content(st, line, cs, manual_stack) ==
    LET n == Len(st.object_code)
    IN  IF n = 0 \/ st.object_code[n].type # st.section
        THEN add_error(st, line, "Expected a label.")
        ELSE CASE st.section = "Instructions" ->
                    Bind(parse_instruction_line(cs, manual_stack), LAMBDA r :
                        IF ~r.ok THEN add_error(st, line, r.message)
                        ELSE [st EXCEPT
                                !.object_code[n].instructions = @ \o r.instructions,
                                !.object_code[n].lines =
                                    @ \o [k \in 1 .. Len(r.instructions) |-> line]])
               [] st.section = "Data" ->
                    Bind(parse_data_line(cs), LAMBDA r :
                        IF ~r.ok THEN add_error(st, line, r.message)
                        ELSE [st EXCEPT !.object_code[n].data = @ \o r.data])
               [] OTHER ->
                    Bind(parse_string_line(cs), LAMBDA r :
                        IF ~r.ok THEN add_error(st, line, r.message)
                        ELSE [st EXCEPT !.object_code[n].value = @ \o r.value])

parse_line(st, k, cs, manual_stack) ==
    IF cs # <<>> /\ cs[Len(cs)] = Colon /\ IsNumber(SubSeq(cs, 1, Len(cs) - 1))
    THEN parse_label(st, k, cs)
    ELSE Bind([st EXCEPT !.open = FALSE], LAMBDA closed :
            IF StripLeft(cs) = <<>> THEN closed
            ELSE IF cs[1] = Dot THEN parse_directive(closed, k, cs)
            ELSE parse_content(closed, k, cs, manual_stack))

RECURSIVE parse_lines(_, _, _, _)
parse_lines(lines, k, manual_stack, st) ==
    IF k > Len(lines) THEN st
    ELSE Bind(parse_line(st, k, lines[k], manual_stack),
              LAMBDA next : parse_lines(lines, k + 1, manual_stack, next))

\* Pass 2 for one instruction segment: the instructions whose label
\* operands are all defined, and an error for each of the others.
UnresolvedAt(segment, k, defined) ==
    \E j \in 1 .. Len(segment.instructions[k].args) :
        /\ ArgType(segment.instructions[k].opcode, j) \in {"label", "labels"}
        /\ segment.instructions[k].args[j] \notin defined

RECURSIVE resolve_instructions(_, _, _, _)
resolve_instructions(segment, k, defined, acc) ==
    IF k > Len(segment.instructions) THEN acc
    ELSE resolve_instructions(segment, k + 1, defined,
            IF UnresolvedAt(segment, k, defined)
            THEN [acc EXCEPT !.errors =
                        Append(@, AssemblyError(segment.lines[k], "Undefined label."))]
            ELSE [acc EXCEPT !.instructions = Append(@, segment.instructions[k])])

resolve_segment(segment, defined, acc) ==
    IF segment.type # "Instructions"
    THEN [acc EXCEPT !.object_code = Append(@, segment)]
    ELSE Bind(resolve_instructions(segment, 1, defined,
                                   [instructions |-> <<>>, errors |-> acc.errors]),
              LAMBDA r :
                [object_code |-> Append(acc.object_code,
                                        [type |-> "Instructions",
                                         labels |-> segment.labels,
                                         instructions |-> r.instructions]),
                 errors |-> r.errors])

RECURSIVE resolve_labels(_, _, _, _)
resolve_labels(object_code, k, defined, acc) ==
    IF k > Len(object_code) THEN acc
    ELSE Bind(resolve_segment(object_code[k], defined, acc),
              LAMBDA next : resolve_labels(object_code, k + 1, defined, next))

assemble(lines, manual_stack) ==
    Bind(parse_lines(lines, 1, manual_stack,
                     [section |-> "None", object_code |-> <<>>, open |-> FALSE,
                      warnings |-> <<>>, errors |-> <<>>]),
         LAMBDA pass1 :
            Bind(resolve_labels(pass1.object_code, 1,
                                DefinedLabels(pass1.object_code),
                                [object_code |-> <<>>, errors |-> pass1.errors]),
                 LAMBDA pass2 :
                    [object_code |-> pass2.object_code,
                     warnings |-> pass1.warnings,
                     errors |-> pass2.errors]))

\* Deep equality of two segment arrays.
segment_arrays_equal(a, b) ==
    /\ Len(a) = Len(b)
    /\ \A k \in 1 .. Len(a) : a[k] = b[k]

(***************************************************************************)
(* The round trips of the tests: object code is written, the bytes are     *)
(* parsed, the parsed object code is written back or disassembled and      *)
(* re-assembled under one flag, and the re-assembled object code is        *)
(* written again.                                                          *)
(***************************************************************************)
MaxCodeLen == 3   \* instructions of the first segment of an explored program

InstructionSegment(labels, instructions) ==
    [type |-> "Instructions", labels |-> labels, instructions |-> instructions]

\* test("vararg instructions should be disassembled correctly")
VarargTest ==
    <<InstructionSegment(<<0>>, <<Inst("switch_jmp", <<90, 100, 101, 102>>),
                                  Inst("ret", <<>>)>>)>>

\* test("va list instructions should be disassembled correctly")
VaListTest ==
    <<InstructionSegment(<<0>>, <<Inst("va_start", <<>>),
                                  Inst("arg_pushw", <<1337>>),
                                  Inst("va_call", <<100>>),
                                  Inst("va_end", <<>>),
                                  Inst("ret", <<>>)>>)>>

\* The lines the first test expects.
VarargExpected ==
    <<Text(<<".", "c", "o", "d", "e">>),
     <<>>,
     Text(<<"0", ":">>),
     Text(<<" ", " ", " ", " ", "s", "w", "i", "t", "c", "h", "_", "j", "m", "p", " ", "r", "9", "0", ",", " ", "1", "0", "0", ",", " ", "1", "0", "1", ",", " ", "1", "0", "2">>),
     Text(<<" ", " ", " ", " ", "r", "e", "t">>),
     <<>>>>

\* The lines the second test expects, under either flag.
VaListExpected ==
    <<Text(<<".", "c", "o", "d", "e">>),
     <<>>,
     Text(<<"0", ":">>),
     Text(<<" ", " ", " ", " ", "v", "a", "_", "s", "t", "a", "r", "t">>),
     Text(<<" ", " ", " ", " ", "a", "r", "g", "_", "p", "u", "s", "h", "w", " ", "1", "3", "3", "7">>),
     Text(<<" ", " ", " ", " ", "v", "a", "_", "c", "a", "l", "l", " ", "1", "0", "0">>),
     Text(<<" ", " ", " ", " ", "v", "a", "_", "e", "n", "d">>),
     Text(<<" ", " ", " ", " ", "r", "e", "t">>),
     <<>>>>

CodecAlphabet ==
    {Inst("va_start", <<>>), Inst("va_end", <<>>), Inst("arg_pushl", <<7>>),
     Inst("set_episode", <<>>), Inst("set_episode", <<7>>)}

\* Labels of the first segment and the segments that follow it.
Shapes ==
    {<< <<0>>, <<>> >>,
     << <<0, 1>>, <<InstructionSegment(<<2>>, <<Inst("switch_jmp", <<90, 0, 2>>),
                                                Inst("ret", <<>>)>>)>> >>,
     << <<0>>, <<[type |-> "Data", labels |-> <<2>>, data |-> <<1, 255>>]>> >>,
     << <<0>>, <<[type |-> "String", labels |-> <<2>>, value |-> <<97, 98>>]>> >>}

CodecPrograms ==
    {<<InstructionSegment(shape[1], instructions)>> \o shape[2] :
        shape \in Shapes, instructions \in SeqsUpTo(CodecAlphabet, MaxCodeLen)}
    \cup {VarargTest, VaListTest}

\* Byte values a single corrupted byte of the input may take.
CorruptValues == {0, 2}

NotParsed == [ok |-> FALSE]
NotAssembled == [object_code |-> <<>>, warnings |-> <<>>, errors |-> <<>>]

CodecIdle ==
    /\ ir = <<>>
    /\ orig_bytes = <<>>
    /\ corrupted = FALSE
    /\ bin = NotParsed
    /\ asm_manual_stack = FALSE
    /\ asm = <<>>
    /\ assembled = NotAssembled
    /\ test_bytes = <<>>
    /\ codec_pc = "idle"

WriteBin ==
    /\ codec_pc = "ir"
    /\ orig_bytes' = write_bin(ir)
    /\ codec_pc' = "bytes"
    /\ UNCHANGED <<ir, corrupted, bin, asm_manual_stack, asm, assembled,
                   test_bytes>>
    /\ UNCHANGED <<cfg_vars, runner_vars, gui_vars>>

Corrupt ==
    /\ codec_pc = "bytes"
    /\ ~corrupted
    /\ \E p \in 1 .. Len(orig_bytes), v \in CorruptValues :
        /\ orig_bytes[p] # v
        /\ orig_bytes' = [orig_bytes EXCEPT ![p] = v]
    /\ corrupted' = TRUE
    /\ UNCHANGED <<ir, bin, asm_manual_stack, asm, assembled, test_bytes,
                   codec_pc>>
    /\ UNCHANGED <<cfg_vars, runner_vars, gui_vars>>

ParseBin ==
    /\ codec_pc = "bytes"
    /\ bin' = parse_bin(orig_bytes)
    /\ codec_pc' = "parsed"
    /\ UNCHANGED <<ir, orig_bytes, corrupted, asm_manual_stack, asm, assembled,
                   test_bytes>>
    /\ UNCHANGED <<cfg_vars, runner_vars, gui_vars>>

WriteParsed ==
    /\ codec_pc = "parsed"
    /\ bin.ok
    /\ test_bytes' = write_bin(bin.object_code)
    /\ codec_pc' = "written"
    /\ UNCHANGED <<ir, orig_bytes, corrupted, bin, asm_manual_stack, asm,
                   assembled>>
    /\ UNCHANGED <<cfg_vars, runner_vars, gui_vars>>

Disassemble ==
    /\ codec_pc = "parsed"
    /\ bin.ok
    /\ \E m \in BOOLEAN :
        /\ asm_manual_stack' = m
        /\ asm' = disassemble(bin.object_code, m)
    /\ codec_pc' = "disassembled"
    /\ UNCHANGED <<ir, orig_bytes, corrupted, bin, assembled, test_bytes>>
    /\ UNCHANGED <<cfg_vars, runner_vars, gui_vars>>

Assemble ==
    /\ codec_pc = "disassembled"
    /\ assembled' = assemble(asm, asm_manual_stack)
    /\ codec_pc' = "assembled"
    /\ UNCHANGED <<ir, orig_bytes, corrupted, bin, asm_manual_stack, asm,
                   test_bytes>>
    /\ UNCHANGED <<cfg_vars, runner_vars, gui_vars>>

WriteAssembled ==
    /\ codec_pc = "assembled"
    /\ test_bytes' = write_bin(assembled.object_code)
    /\ codec_pc' = "reassembled"
    /\ UNCHANGED <<ir, orig_bytes, corrupted, bin, asm_manual_stack, asm,
                   assembled>>
    /\ UNCHANGED <<cfg_vars, runner_vars, gui_vars>>

(***************************************************************************)
(* The virtual machine, as far as the quest runner drives it.  A quest is  *)
(* a list of instruction segments whose instructions carry the line of     *)
(* their mnemonic token.  One thread runs; execute() performs one          *)
(* instruction.  A blocking instruction suspends the thread at that        *)
(* instruction until the matching external operation has been invoked;     *)
(* the execute() after it resumes past the instruction.                    *)
(***************************************************************************)
ExecutionLocation(s, i) == [seg_idx |-> s, inst_idx |-> i]

NoThread ==
    [running |-> FALSE, execloc |-> ExecutionLocation(0, 0), call_stack |-> <<>>,
     blocked |-> "None", unblocked |-> FALSE]

\* Segments and instructions are indexed from 0, as in the program.
instruction_at(object_code, execloc) ==
    object_code[execloc.seg_idx + 1].instructions[execloc.inst_idx + 1]

get_segment_index_by_label(object_code, label) ==
    CHOOSE s \in 0 .. Len(object_code) - 1 : label \in Elems(object_code[s + 1].labels)

start_thread(object_code, label) ==
    [running |-> TRUE,
     execloc |-> ExecutionLocation(get_segment_index_by_label(object_code, label), 0),
     call_stack |-> <<>>, blocked |-> "None", unblocked |-> FALSE]

get_current_execution_location(machine) == machine.execloc

NoSourceLocation == [defined |-> FALSE]
SourceLocation(line_no) == [defined |-> TRUE, line_no |-> line_no]

get_current_source_location(machine, object_code) ==
    IF machine.running
    THEN SourceLocation(instruction_at(object_code, machine.execloc).line_no)
    ELSE NoSourceLocation

\* The location after `execloc`: the next instruction, or the first one of
\* the next segment.
next_location(object_code, execloc) ==
    IF execloc.inst_idx + 1 < Len(object_code[execloc.seg_idx + 1].instructions)
    THEN ExecutionLocation(execloc.seg_idx, execloc.inst_idx + 1)
    ELSE ExecutionLocation(execloc.seg_idx + 1, 0)

advance(machine, object_code) ==
    LET next == next_location(object_code, machine.execloc)
    IN  IF next.seg_idx < Len(object_code)
        THEN [machine EXCEPT !.execloc = next, !.blocked = "None", !.unblocked = FALSE]
        ELSE NoThread

BlockingResult ==
    [sync |-> "WaitingVsync", window_msg |-> "WaitingInput", list |-> "WaitingSelection"]

call_label(machine, object_code, label) ==
    [machine EXCEPT
        !.call_stack = Append(@, next_location(object_code, machine.execloc)),
        !.execloc = ExecutionLocation(get_segment_index_by_label(object_code, label), 0)]

return_from(machine, object_code) ==
    IF machine.call_stack = <<>>
    THEN NoThread
    ELSE LET to == machine.call_stack[Len(machine.call_stack)]
         IN  IF to.seg_idx < Len(object_code)
             THEN [machine EXCEPT
                      !.execloc = to,
                      !.call_stack = SubSeq(@, 1, Len(@) - 1)]
             ELSE NoThread

\* execute(): the machine afterwards and the ExecutionResult.
execute(machine, object_code, reg) ==
    IF ~machine.running
    THEN [vm |-> machine, result |-> "Halted"]
    ELSE
    LET inst == instruction_at(object_code, machine.execloc) IN
    IF machine.blocked # "None"
    THEN IF machine.unblocked
         THEN [vm |-> advance(machine, object_code), result |-> "Ok"]
         ELSE [vm |-> machine, result |-> machine.blocked]
    ELSE IF inst.opcode \in DOMAIN BlockingResult
    THEN [vm |-> [machine EXCEPT !.blocked = BlockingResult[inst.opcode]],
          result |-> BlockingResult[inst.opcode]]
    ELSE IF inst.opcode = "call"
    THEN [vm |-> call_label(machine, object_code, inst.args[1]), result |-> "Ok"]
    ELSE IF inst.opcode = "switch_call"
    THEN [vm |-> IF reg + 2 <= Len(inst.args)
                 THEN call_label(machine, object_code, inst.args[reg + 2])
                 ELSE advance(machine, object_code),
          result |-> "Ok"]
    ELSE IF inst.opcode = "ret"
    THEN LET after == return_from(machine, object_code)
         IN  [vm |-> after, result |-> IF after.running THEN "Ok" ELSE "Halted"]
    ELSE [vm |-> advance(machine, object_code), result |-> "Ok"]

vsync(machine) ==
    IF machine.running /\ machine.blocked = "WaitingVsync"
    THEN [machine EXCEPT !.unblocked = TRUE]
    ELSE machine

list_select(machine, index) ==
    IF machine.running /\ machine.blocked = "WaitingSelection"
    THEN [machine EXCEPT !.unblocked = TRUE]
    ELSE machine

(***************************************************************************)
(* QuestRunner: the host that pumps the virtual machine from animation     *)
(* frame callbacks.                                                        *)
(***************************************************************************)
MaxQuestLen == 2       \* instructions of the entry segment of a quest
MaxPending == 2        \* animation frame callbacks requested and not yet run
MaxBreakpoints == 1    \* breakpoints set in the editor
MaxVsyncReturns == 2   \* WaitingVsync results counted at one instruction

Min(a, b) == IF a <= b THEN a ELSE b

RunnerAlphabet ==
    {Inst("nop", <<>>), Inst("sync", <<>>), Inst("window_msg", <<>>),
     Inst("list", <<>>), Inst("call", <<1>>), Inst("switch_call", <<0, 1, 2>>),
     Inst("ret", <<>>)}

\* The instructions of `instructions` with the lines of their mnemonics,
\* the first one on line `first`.
with_lines(instructions, first) ==
    [k \in 1 .. Len(instructions) |->
        [opcode |-> instructions[k].opcode, args |-> instructions[k].args,
         line_no |-> first + k - 1]]

\* A quest: the entry segment 0 and the two subroutines 1 and 2.
QuestOf(entry) ==
    <<[labels |-> <<0>>, instructions |-> with_lines(entry, 1)],
      [labels |-> <<1>>,
       instructions |-> with_lines(<<Inst("sync", <<>>), Inst("ret", <<>>)>>,
                                   Len(entry) + 1)],
      [labels |-> <<2>>,
       instructions |-> with_lines(<<Inst("nop", <<>>), Inst("ret", <<>>)>>,
                                   Len(entry) + 3)]>>

Quests == {QuestOf(entry) : entry \in SeqsUpTo(RunnerAlphabet, MaxQuestLen) \ {<<>>}}

Lines(object_code) ==
    UNION {{object_code[s].instructions[k].line_no :
                k \in 1 .. Len(object_code[s].instructions)} :
           s \in 1 .. Len(object_code)}

NoLabel == [defined |-> FALSE]

get_step_innable_instruction_label_argument(instr) ==
    IF instr.opcode \in {"va_call", "call"}
    THEN [defined |-> TRUE, value |-> instr.args[1]]
    ELSE IF instr.opcode = "switch_call"
    THEN [defined |-> TRUE, value |-> instr.args[2]]
    ELSE NoLabel

\* requestAnimationFrame from schedule_frame: one more pending callback.
schedule_frame(pending) == Min(pending + 1, MaxPending)

\* step_over(): the break_on_next flag and the stepping breakpoints after
\* the call.  Reading the segment after the last one throws before anything
\* is changed.
step_over(machine, object_code, flag, stepping) ==
    LET execloc == get_current_execution_location(machine)
        cur_instr == instruction_at(object_code, execloc)
        dst_label == get_step_innable_instruction_label_argument(cur_instr)
        next_execloc == next_location(object_code, execloc)
    IN  IF ~dst_label.defined
        THEN [break_on_next |-> TRUE, stepping_breakpoints |-> stepping]
        ELSE IF next_execloc.seg_idx >= Len(object_code)
        THEN [break_on_next |-> flag, stepping_breakpoints |-> stepping]
        ELSE [break_on_next |-> flag,
              stepping_breakpoints |->
                  stepping \cup {instruction_at(object_code, next_execloc).line_no}]

step_in(machine, object_code, flag, stepping) ==
    LET execloc == get_current_execution_location(machine)
        cur_instr == instruction_at(object_code, execloc)
        dst_label == get_step_innable_instruction_label_argument(cur_instr)
    IN  IF ~dst_label.defined
        THEN step_over(machine, object_code, flag, stepping)
        ELSE LET dst == ExecutionLocation(
                            get_segment_index_by_label(object_code, dst_label.value), 0)
             IN  [break_on_next |-> flag,
                  stepping_breakpoints |->
                      stepping \cup {instruction_at(object_code, dst).line_no}]

\* What the host asked for last (run or resume: "run"; step_over: "over";
\* step_in: "in"; run() before a step was answered: "given up"; nothing,
\* when a callback left pending runs the loop after a stop: "unasked"), where the thread was then, whether no stepping breakpoint
\* of an earlier request was left (fresh), and how the execution loop
\* stopped for the first time afterwards.
FreeRun ==
    [kind |-> "run", from |-> ExecutionLocation(0, 0), call |-> FALSE, enters |-> -1,
     fresh |-> TRUE,
     answered |-> FALSE, executed |-> 0, at |-> ExecutionLocation(0, 0),
     halted |-> FALSE, cause |-> "none"]

\* The segment a call-classified instruction enters when it is executed,
\* -1 when it enters none.
entered_segment(object_code, instr, reg) ==
    IF instr.opcode \in {"call", "va_call"}
    THEN get_segment_index_by_label(object_code, instr.args[1])
    ELSE IF instr.opcode = "switch_call" /\ reg + 2 <= Len(instr.args)
    THEN get_segment_index_by_label(object_code, instr.args[reg + 2])
    ELSE -1

StepRequest(kind, machine, object_code, reg, stepping) ==
    LET instr == instruction_at(object_code, machine.execloc)
    IN  [FreeRun EXCEPT
            !.kind = kind,
            !.from = machine.execloc,
            !.call = get_step_innable_instruction_label_argument(instr).defined,
            !.enters = entered_segment(object_code, instr, reg),
            !.fresh = (stepping = {})]

\* The request after one more execute(); `stopped` when the loop is left.
Answered(request, machine, stopped, cause) ==
    IF request.answered
    THEN IF stopped
         THEN [FreeRun EXCEPT !.kind = "unasked", !.answered = TRUE, !.executed = 1,
                              !.at = machine.execloc, !.halted = ~machine.running,
                              !.cause = cause]
         ELSE request
    ELSE IF stopped
    THEN [request EXCEPT !.answered = TRUE, !.executed = Min(@ + 1, 2),
                         !.at = machine.execloc, !.halted = ~machine.running,
                         !.cause = cause]
    ELSE [request EXCEPT !.executed = Min(@ + 1, 2)]

RunnerIdle ==
    /\ quest = <<>>
    /\ vm_register = 0
    /\ vm = NoThread
    /\ animation_frame = "undefined"
    /\ pending_frames = 0
    /\ break_on_next = FALSE
    /\ stepping_breakpoints = {}
    /\ breakpoints = {}
    /\ execution_location = NoSourceLocation
    /\ in_execution_loop = FALSE
    /\ exec_result = "None"
    /\ vsync_returns = 0
    /\ step_request = FreeRun

\* run(quest)
Run ==
    /\ ~in_execution_loop
    /\ pending_frames' =
           schedule_frame(IF animation_frame = "pending"
                          THEN pending_frames - 1 ELSE pending_frames)
    /\ animation_frame' = "pending"
    /\ vm' = start_thread(quest, 0)
    /\ vsync_returns' = 0
    /\ step_request' =                 \* a step still outstanding is given up
           IF step_request.answered \/ step_request.kind = "run"
           THEN FreeRun
           ELSE [step_request EXCEPT !.kind = "given up"]
    /\ UNCHANGED <<quest, vm_register, break_on_next, stepping_breakpoints, breakpoints,
                   execution_location, in_execution_loop, exec_result>>
    /\ UNCHANGED <<cfg_vars, codec_vars, gui_vars>>

\* resume()
Resume ==
    /\ ~in_execution_loop
    /\ pending_frames' = schedule_frame(pending_frames)
    /\ animation_frame' = "pending"
    /\ step_request' = IF step_request.answered THEN FreeRun ELSE step_request
    /\ UNCHANGED <<quest, vm_register, vm, break_on_next, stepping_breakpoints,
                   breakpoints, execution_location, in_execution_loop, exec_result,
                   vsync_returns>>
    /\ UNCHANGED <<cfg_vars, codec_vars, gui_vars>>

\* step_over(), on a machine that has a thread
StepOver ==
    /\ ~in_execution_loop
    /\ vm.running
    /\ LET after == step_over(vm, quest, break_on_next, stepping_breakpoints)
       IN  /\ break_on_next' = after.break_on_next
           /\ stepping_breakpoints' = after.stepping_breakpoints
    /\ step_request' = StepRequest("over", vm, quest, vm_register, stepping_breakpoints)
    /\ UNCHANGED <<quest, vm_register, vm, animation_frame, pending_frames, breakpoints,
                   execution_location, in_execution_loop, exec_result, vsync_returns>>
    /\ UNCHANGED <<cfg_vars, codec_vars, gui_vars>>

\* step_in(), on a machine that has a thread
StepIn ==
    /\ ~in_execution_loop
    /\ vm.running
    /\ LET after == step_in(vm, quest, break_on_next, stepping_breakpoints)
       IN  /\ break_on_next' = after.break_on_next
           /\ stepping_breakpoints' = after.stepping_breakpoints
    /\ step_request' = StepRequest("in", vm, quest, vm_register, stepping_breakpoints)
    /\ UNCHANGED <<quest, vm_register, vm, animation_frame, pending_frames, breakpoints,
                   execution_location, in_execution_loop, exec_result, vsync_returns>>
    /\ UNCHANGED <<cfg_vars, codec_vars, gui_vars>>

\* The browser runs the oldest pending animation frame callback.
FrameCallback ==
    /\ ~in_execution_loop
    /\ pending_frames > 0
    /\ pending_frames' = pending_frames - 1
    /\ animation_frame' =
           IF pending_frames = 1 /\ animation_frame = "pending"
           THEN "fired" ELSE animation_frame
    /\ in_execution_loop' = TRUE
    /\ exec_result' = "None"      \* `let result` of this invocation, not yet assigned
    /\ UNCHANGED <<quest, vm_register, vm, break_on_next, stepping_breakpoints,
                   breakpoints, execution_location, vsync_returns, step_request>>
    /\ UNCHANGED <<cfg_vars, codec_vars, gui_vars>>

\* One iteration of `exec_loop: while (true)` of execution_loop.
ExecutionLoop ==
    /\ in_execution_loop
    /\ LET executed == execute(vm, quest, vm_register)
           srcloc == get_current_source_location(executed.vm, quest)
           hit == /\ srcloc.defined
                  /\ \/ break_on_next
                     \/ srcloc.line_no \in breakpoints
                     \/ srcloc.line_no \in stepping_breakpoints
           cause == IF ~hit THEN "halted"
                    ELSE IF srcloc.line_no \in breakpoints THEN "user"
                    ELSE IF srcloc.line_no \in stepping_breakpoints THEN "stepping"
                    ELSE "flag"
       IN  /\ exec_result' = executed.result
           /\ step_request' =
                  Answered(step_request, executed.vm,
                           hit \/ executed.result = "Halted", cause)
           /\ vsync_returns' =
                  IF executed.result = "WaitingVsync"
                  THEN Min(vsync_returns + 1, MaxVsyncReturns)
                  ELSE IF executed.vm.execloc # vm.execloc \/ ~executed.vm.running
                  THEN 0
                  ELSE vsync_returns
           /\ IF hit
              THEN /\ stepping_breakpoints' = {}
                   /\ execution_location' = srcloc
                   /\ in_execution_loop' = FALSE
                   /\ vm' = executed.vm
                   /\ UNCHANGED <<break_on_next, pending_frames, animation_frame>>
              ELSE /\ break_on_next' = FALSE
                   /\ UNCHANGED stepping_breakpoints
                   /\ CASE executed.result = "WaitingVsync" ->
                             /\ vm' = vsync(executed.vm)
                             /\ pending_frames' = schedule_frame(pending_frames)
                             /\ animation_frame' = "pending"
                             /\ UNCHANGED <<execution_location, in_execution_loop>>
                        [] executed.result = "WaitingInput" ->
                             /\ vm' = executed.vm
                             /\ pending_frames' = schedule_frame(pending_frames)
                             /\ animation_frame' = "pending"
                             /\ UNCHANGED <<execution_location, in_execution_loop>>
                        [] executed.result = "WaitingSelection" ->
                             /\ vm' = list_select(executed.vm, 0)
                             /\ pending_frames' = schedule_frame(pending_frames)
                             /\ animation_frame' = "pending"
                             /\ UNCHANGED <<execution_location, in_execution_loop>>
                        [] executed.result = "Halted" ->
                             /\ vm' = executed.vm
                             /\ execution_location' = NoSourceLocation
                             /\ in_execution_loop' = FALSE
                             /\ UNCHANGED <<pending_frames, animation_frame>>
                        [] OTHER ->
                             /\ vm' = executed.vm
                             /\ UNCHANGED <<execution_location, in_execution_loop,
                                            pending_frames, animation_frame>>
    /\ UNCHANGED <<quest, vm_register, breakpoints>>
    /\ UNCHANGED <<cfg_vars, codec_vars, gui_vars>>

(***************************************************************************)
(* AsmEditorStore: the assembly text model, the inline-arguments mode and  *)
(* the undo tracking of the model.  The text model numbers its versions:   *)
(* every change takes the next version id; an edit makes it the            *)
(* alternative version id as well, an undo or redo restores the            *)
(* alternative version id of the state it returns to.                      *)
(***************************************************************************)
MaxModels == 4       \* text models created in one run
MaxVersionId == 6    \* version ids a text model hands out

\* this._model is undefined; `id` counts the text models created so far.
NoModelAfter(id) == [defined |-> FALSE, id |-> id]

\* editor.createModel on the text disassembled with `manual_stack`.
createModel(id, manual_stack) ==
    [defined |-> TRUE, id |-> id, manual_stack |-> manual_stack,
     version_id |-> 1, alternative_version_id |-> 1, past |-> <<>>, future |-> <<>>]

\* The three edits of a text model.
pushEditOperations(model) ==
    [model EXCEPT !.version_id = @ + 1, !.alternative_version_id = model.version_id + 1,
                  !.past = Append(@, model.alternative_version_id), !.future = <<>>]
model_undo(model) ==
    [model EXCEPT !.version_id = @ + 1,
                  !.alternative_version_id = model.past[Len(model.past)],
                  !.past = SubSeq(@, 1, Len(@) - 1),
                  !.future = Append(@, model.alternative_version_id)]
model_redo(model) ==
    [model EXCEPT !.version_id = @ + 1,
                  !.alternative_version_id = model.future[Len(model.future)],
                  !.future = SubSeq(@, 1, Len(@) - 1),
                  !.past = Append(@, model.alternative_version_id)]

\* setup_editor_model_features: the locals of the closure.
setup_editor_model_features(model) ==
    [initial_version |-> model.alternative_version_id,
     current_version |-> model.alternative_version_id,
     last_version |-> model.alternative_version_id]

NoVersions == [initial_version |-> 0, current_version |-> 0, last_version |-> 0]

\* The listener given to model.onDidChangeContent: the locals and the two
\* flags after a change that left the model at alternative version `version`.
onDidChangeContent(versions, undo, redo, version) ==
    LET undoing == version < versions.current_version
        new_edit == ~undoing /\ version > versions.last_version
    IN  [versions |->
            [versions EXCEPT
                !.current_version = version,
                !.last_version =
                    IF new_edit /\ versions.current_version > versions.last_version
                    THEN versions.current_version ELSE @],
         can_undo |->
            IF undoing
            THEN (IF version = versions.initial_version THEN FALSE ELSE undo)
            ELSE TRUE,
         can_redo |->
            IF undoing THEN TRUE
            ELSE IF version <= versions.last_version
            THEN (IF version = versions.last_version THEN FALSE ELSE redo)
            ELSE FALSE]

NeverSet == [called |-> FALSE]

EditorIdle ==
    /\ current_quest = FALSE
    /\ has_issues = FALSE
    /\ inline_args_mode = TRUE
    /\ analyser_manual_stack = FALSE
    /\ editor_model = NoModelAfter(0)
    /\ undo_versions = NoVersions
    /\ can_undo = FALSE
    /\ can_redo = FALSE
    /\ last_set = NeverSet

NextModelId == editor_model.id + 1

\* update_model(), with `mode` the value of inline_args_mode it reads and
\* `loaded` whether there is a current quest.
update_model(loaded, mode) ==
    /\ can_undo' = FALSE                       \* this.undo.reset()
    /\ can_redo' = FALSE
    /\ IF loaded
       THEN /\ editor_model' = createModel(NextModelId, ~mode)
            /\ undo_versions' = setup_editor_model_features(editor_model')
       ELSE /\ editor_model' = NoModelAfter(editor_model.id)
            /\ UNCHANGED undo_versions         \* the listener is disposed of

\* quest_changed: the current quest was loaded, replaced or closed.
QuestChanged ==
    /\ NextModelId <= MaxModels
    /\ current_quest' \in BOOLEAN
    /\ update_model(current_quest', inline_args_mode)
    /\ last_set' = NeverSet
    /\ UNCHANGED <<has_issues, inline_args_mode, analyser_manual_stack>>
    /\ UNCHANGED <<cfg_vars, codec_vars, runner_vars, renderer_vars>>

\* The analyser reports the issues of the text it assembled.
IssuesChanged ==
    /\ has_issues' = ~has_issues
    /\ last_set' = NeverSet
    /\ UNCHANGED <<current_quest, inline_args_mode, analyser_manual_stack, editor_model,
                   undo_versions, can_undo, can_redo>>
    /\ UNCHANGED <<cfg_vars, codec_vars, runner_vars, renderer_vars>>

\* set_inline_args_mode(x) without its check of has_issues.
set_inline_args_mode_unchecked(x) ==
    /\ inline_args_mode' = x
    /\ analyser_manual_stack' = ~x
    /\ update_model(current_quest, x)

\* set_inline_args_mode(x)
set_inline_args_mode(x) ==
    IF ~has_issues
    THEN /\ inline_args_mode' = x
         /\ analyser_manual_stack' = ~inline_args_mode'    \* update_settings
         /\ update_model(current_quest, inline_args_mode')
    ELSE UNCHANGED <<inline_args_mode, analyser_manual_stack, editor_model,
                     undo_versions, can_undo, can_redo>>

\* The user toggles the inline-arguments mode.
SetInlineArgsMode ==
    /\ NextModelId <= MaxModels
    /\ \E x \in BOOLEAN :
        /\ last_set' = [called |-> TRUE, x |-> x, issues |-> has_issues,
                        loaded |-> current_quest,
                        before |-> <<inline_args_mode, analyser_manual_stack,
                                     editor_model>>]
        /\ set_inline_args_mode(x)
    /\ UNCHANGED <<current_quest, has_issues>>
    /\ UNCHANGED <<cfg_vars, codec_vars, runner_vars, renderer_vars>>

\* The model changed to `changed`; the listener runs.
ContentChanged(changed) ==
    /\ editor_model' = changed
    /\ LET after == onDidChangeContent(undo_versions, can_undo, can_redo,
                                       changed.alternative_version_id)
       IN  /\ undo_versions' = after.versions
           /\ can_undo' = after.can_undo
           /\ can_redo' = after.can_redo
    /\ last_set' = NeverSet
    /\ UNCHANGED <<current_quest, has_issues, inline_args_mode, analyser_manual_stack>>
    /\ UNCHANGED <<cfg_vars, codec_vars, runner_vars, renderer_vars>>

\* The user types in the editor.
EditText ==
    /\ editor_model.defined
    /\ editor_model.version_id < MaxVersionId
    /\ ContentChanged(pushEditOperations(editor_model))

\* The user undoes a change of the text.
UndoText ==
    /\ editor_model.defined
    /\ editor_model.version_id < MaxVersionId
    /\ editor_model.past # <<>>
    /\ ContentChanged(model_undo(editor_model))

\* The user redoes a change of the text.
RedoText ==
    /\ editor_model.defined
    /\ editor_model.version_id < MaxVersionId
    /\ editor_model.future # <<>>
    /\ ContentChanged(model_redo(editor_model))

(***************************************************************************)
(* Renderer: the render loop driven by requestAnimationFrame.              *)
(***************************************************************************)
MaxHandles == 5      \* requestAnimationFrame calls in one run

RendererIdle ==
    /\ render_scheduled = FALSE
    /\ animation_frame_handle = 0
    /\ animation_frames = {}
    /\ frames_requested = 0
    /\ rendering_stopped = FALSE
    /\ rendered_while_stopped = FALSE

\* this.animation_frame_handle = requestAnimationFrame(this.call_render),
\* with `frames` the callbacks the browser holds at the call.
requestAnimationFrame(frames) ==
    /\ frames_requested' = frames_requested + 1
    /\ animation_frame_handle' = frames_requested'
    /\ animation_frames' = frames \cup {frames_requested'}

\* start_rendering()
StartRendering ==
    /\ frames_requested < MaxHandles
    /\ render_scheduled' = TRUE                 \* schedule_render()
    /\ requestAnimationFrame(animation_frames)
    /\ rendering_stopped' = FALSE
    /\ UNCHANGED rendered_while_stopped
    /\ UNCHANGED <<cfg_vars, codec_vars, runner_vars, editor_vars>>

\* stop_rendering()
StopRendering ==
    /\ IF animation_frame_handle # 0
       THEN /\ animation_frames' = animation_frames \ {animation_frame_handle}
            /\ animation_frame_handle' = 0
       ELSE UNCHANGED <<animation_frames, animation_frame_handle>>
    /\ rendering_stopped' = TRUE
    /\ UNCHANGED <<render_scheduled, frames_requested, rendered_while_stopped>>
    /\ UNCHANGED <<cfg_vars, codec_vars, runner_vars, editor_vars>>

\* schedule_render(), called by set_size and by the views
ScheduleRender ==
    /\ render_scheduled' = TRUE
    /\ UNCHANGED <<animation_frame_handle, animation_frames, frames_requested,
                   rendering_stopped, rendered_while_stopped>>
    /\ UNCHANGED <<cfg_vars, codec_vars, runner_vars, editor_vars>>

\* The browser runs the call_render callback with handle `frame`.
CallRender ==
    /\ frames_requested < MaxHandles
    /\ \E frame \in animation_frames, controls_updated \in BOOLEAN :
        LET should_render == render_scheduled \/ controls_updated
        IN  /\ render_scheduled' = FALSE
            /\ rendered_while_stopped' =
                    (rendered_while_stopped \/ (should_render /\ rendering_stopped))
            /\ requestAnimationFrame(animation_frames \ {frame})
    /\ UNCHANGED rendering_stopped
    /\ UNCHANGED <<cfg_vars, codec_vars, runner_vars, editor_vars>>

GuiIdle == EditorIdle /\ RendererIdle

(***************************************************************************)
(* Specifications.  SpecCfg builds the graph of every control program,     *)
(* SpecValueSet builds the graph of every data program and queries it.     *)
(***************************************************************************)
vars == <<cfg_vars, codec_vars, runner_vars, gui_vars>>

CfgIdle == segments = <<>> /\ InitGraph

InitCfg ==
    segments \in Programs(ControlAlphabet) /\ InitGraph /\ CodecIdle /\ RunnerIdle /\ GuiIdle
NextCfg == CreateBasicBlocks \/ LinkBlocks
SpecCfg == InitCfg /\ [][NextCfg]_vars

InitValueSet ==
    segments \in Programs(DataAlphabet) /\ InitGraph /\ CodecIdle /\ RunnerIdle /\ GuiIdle
NextValueSet == CreateBasicBlocks \/ LinkBlocks \/ RegisterValueSet
SpecValueSet == InitValueSet /\ [][NextValueSet]_vars

InitGraphSpec ==
    segments \in Programs(GraphAlphabet) /\ InitGraph /\ CodecIdle /\ RunnerIdle /\ GuiIdle
NextGraph == CreateBasicBlocks \/ LinkBlocks \/ QueryForeignInstruction
SpecGraph == InitGraphSpec /\ [][NextGraph]_vars

InitEdit == segments \in EditPrograms /\ InitGraph /\ CodecIdle /\ RunnerIdle /\ GuiIdle
NextEdit ==
    \/ CreateBasicBlocks
    \/ LinkBlocks
    \/ RegisterValueSet
    \/ RemoveInstruction
    \/ QueryAgain
SpecEdit == InitEdit /\ [][NextEdit]_vars

InitEditor ==
    /\ CfgIdle
    /\ CodecIdle
    /\ RunnerIdle
    /\ EditorIdle
    /\ RendererIdle
NextEditor ==
    \/ QuestChanged
    \/ IssuesChanged
    \/ SetInlineArgsMode
    \/ EditText
    \/ UndoText
    \/ RedoText
SpecEditor == InitEditor /\ [][NextEditor]_vars

InitRenderer ==
    /\ CfgIdle
    /\ CodecIdle
    /\ RunnerIdle
    /\ EditorIdle
    /\ RendererIdle
NextRenderer ==
    \/ StartRendering
    \/ StopRendering
    \/ ScheduleRender
    \/ CallRender
SpecRenderer == InitRenderer /\ [][NextRenderer]_vars

InitCodec ==
    /\ CfgIdle
    /\ RunnerIdle
    /\ GuiIdle
    /\ ir \in CodecPrograms
    /\ orig_bytes = <<>>
    /\ corrupted = FALSE
    /\ bin = NotParsed
    /\ asm_manual_stack = FALSE
    /\ asm = <<>>
    /\ assembled = NotAssembled
    /\ test_bytes = <<>>
    /\ codec_pc = "ir"
NextCodec ==
    \/ WriteBin
    \/ Corrupt
    \/ ParseBin
    \/ WriteParsed
    \/ Disassemble
    \/ Assemble
    \/ WriteAssembled
SpecCodec == InitCodec /\ [][NextCodec]_vars

InitRunner ==
    /\ CfgIdle
    /\ CodecIdle
    /\ GuiIdle
    /\ quest \in Quests
    /\ vm_register \in {0, 1}
    /\ vm = NoThread
    /\ animation_frame = "undefined"
    /\ pending_frames = 0
    /\ break_on_next = FALSE
    /\ stepping_breakpoints = {}
    /\ breakpoints \in {b \in SUBSET Lines(quest) : Cardinality(b) <= MaxBreakpoints}
    /\ execution_location = NoSourceLocation
    /\ in_execution_loop = FALSE
    /\ exec_result = "None"
    /\ vsync_returns = 0
    /\ step_request = FreeRun
NextRunner ==
    \/ Run
    \/ Resume
    \/ StepOver
    \/ StepIn
    \/ FrameCallback
    \/ ExecutionLoop
SpecRunner == InitRunner /\ [][NextRunner]_vars

(***************************************************************************)
(* Vocabulary of the claims about the graph.                               *)
(***************************************************************************)
Blocks == 1 .. Len(cfg_blocks)
BlocksBuilt == cfg_pc = "create" => seg_idx > Len(segments)
Holds(b, k) ==
    /\ cfg_blocks[b].segment = k[1]
    /\ cfg_blocks[b].start <= k[2]
    /\ k[2] < cfg_blocks[b].end

\* C1: once the blocks are created (and so after create_control_flow_graph)
\* every instruction is a key of cfg.instructions mapped to the one block
\* whose range [start, end) holds it, and every block's range is a non-empty
\* range of indices of a single segment; hence the ranges of the blocks of a
\* segment are disjoint and cover it.
C1_EveryInstructionInOneBlock ==
    BlocksBuilt =>
        /\ DOMAIN cfg_instructions = AllInstructions
        /\ \A k \in AllInstructions :
            /\ Cardinality({b \in Blocks : Holds(b, k)}) = 1
            /\ Holds(cfg_instructions[k], k)
        /\ \A b \in Blocks :
            /\ cfg_blocks[b].segment \in 1 .. Len(segments)
            /\ 0 <= cfg_blocks[b].start
            /\ cfg_blocks[b].start < cfg_blocks[b].end
            /\ cfg_blocks[b].end <= Len(segments[cfg_blocks[b].segment].instructions)
        /\ \A a, b \in Blocks :
            (a # b /\ cfg_blocks[a].segment = cfg_blocks[b].segment) =>
                \/ cfg_blocks[a].end <= cfg_blocks[b].start
                \/ cfg_blocks[b].end <= cfg_blocks[a].start

\* A finished graph with two segments, one of them split into two blocks.
C1_Witness ==
    /\ cfg_pc = "done"
    /\ \E a, b, c \in Blocks :
        /\ a # b
        /\ cfg_blocks[a].segment = cfg_blocks[b].segment
        /\ cfg_blocks[c].segment # cfg_blocks[a].segment
        /\ cfg_blocks[c].end - cfg_blocks[c].start >= 2

\* Control flow inside a callee: fallthrough, jump and call edges, as laid by
\* the first loop of link_blocks (no return edges).
FlowSucc(b) ==
    (IF cfg_blocks[b].branch_type \in {"None", "ConditionalJump"} /\ b + 1 \in Blocks
     THEN {b + 1} ELSE {})
    \cup (IF cfg_blocks[b].branch_type = "Return" THEN {}
          ELSE {label_blocks[l] : l \in Elems(cfg_blocks[b].branch_labels)
                                        \cap DOMAIN label_blocks})

RECURSIVE ReachIn(_, _)
ReachIn(set, n) ==
    IF n = 0 THEN set ELSE ReachIn(set \cup UNION {FlowSucc(b) : b \in set}, n - 1)
Reach(b) == ReachIn({b}, Len(cfg_blocks))

ReturnBlocksOf(entry) == {r \in Reach(entry) : cfg_blocks[r].branch_type = "Return"}

\* Call blocks that have a continuation block and name label l.
CallSites(l) ==
    {c \in Blocks : /\ cfg_blocks[c].branch_type = "Call"
                    /\ c + 1 \in Blocks
                    /\ l \in Elems(cfg_blocks[c].branch_labels)}

\* C2: in a built graph, a subroutine called from two call sites has each of
\* its Return blocks linked to the continuation of both call sites, and a
\* Return block is linked only to continuations of calls whose target
\* reaches it.
C2_ReturnsToEachCallSite ==
    cfg_pc = "done" =>
        /\ \A l \in DOMAIN label_blocks : \A c1, c2 \in CallSites(l) :
            c1 # c2 =>
                \A r \in ReturnBlocksOf(label_blocks[l]) :
                    {c1 + 1, c2 + 1} \subseteq Elems(cfg_blocks[r].to)
        /\ \A r \in Blocks : \A k \in Elems(cfg_blocks[r].to) :
            cfg_blocks[r].branch_type = "Return" =>
                /\ k - 1 \in Blocks
                /\ cfg_blocks[k - 1].branch_type = "Call"
                /\ \E l \in Elems(cfg_blocks[k - 1].branch_labels) \cap DOMAIN label_blocks :
                      r \in Reach(label_blocks[l])

(***************************************************************************)
(* Vocabulary of the claims about the value-set query.                     *)
(***************************************************************************)
Queried == query # NoQuery
QueryBlock == cfg_instructions[query.instruction]
InstAt(b, j) == segments[cfg_blocks[b].segment].instructions[j + 1]

\* The opcodes of the explored programs that store into their first operand.
Writes(inst, r) ==
    /\ inst.opcode \in {"let", "set"} \cup ImmediateLoads
    /\ inst.args[1] = r

\* Indices before the query point, in its block, of instructions writing r.
WritersBefore(r) ==
    {j \in cfg_blocks[QueryBlock].start .. query.instruction[2] - 1 :
        Writes(InstAt(QueryBlock, j), r)}

Max(S) == CHOOSE x \in S : \A y \in S : y <= x

\* C3: when the nearest write to the queried register before the query
\* point, inside the block, is an immediate load of v, the query returns
\* exactly {v}.
C3_ImmediateLoadIsSingleton ==
    Queried =>
        LET w == WritersBefore(query.register)
        IN  (w # {} /\ InstAt(QueryBlock, Max(w)).opcode \in ImmediateLoads) =>
                result = Returned({InstAt(QueryBlock, Max(w)).args[2]})

JoinExample ==
    <<[labels |-> <<0>>,
       instructions |-> <<Inst("leti", <<0, 1>>), Inst("jmp_e", <<0, 1, 1>>),
                          Inst("leti", <<0, 2>>)>>],
      [labels |-> <<1>>, instructions |-> <<Inst("letw", <<1, 1>>)>>]>>

\* C4: when no instruction before the query point in the block writes the
\* queried register, the query returns the union of the value sets of that
\* register at the end of every predecessor block; at the entry of the
\* block joining `r0 := 1` and `r0 := 2` it returns {1, 2}.
C4_UnionOfPredecessors ==
    Queried =>
        /\ WritersBefore(query.register) = {} =>
            /\ ~result.overflow
            /\ result.values =
                UNION {find_value_set(cfg_blocks, segments, p, cfg_blocks[p].end,
                                      query.register).values :
                        p \in Elems(cfg_blocks[QueryBlock].from)}
        /\ (/\ segments = JoinExample
            /\ query = [instruction |-> <<2, 0>>, register |-> 0]) =>
                result = Returned({1, 2})

(***************************************************************************)
(* Vocabulary of the claims about the codec and the assembly text.         *)
(***************************************************************************)
\* Labels are unique across the program and every segment is addressable.
ValidObjectCode(oc) ==
    /\ \A k \in 1 .. Len(oc) : oc[k].labels # <<>>
    /\ \A k1, k2 \in 1 .. Len(oc) :
        \A j1 \in 1 .. Len(oc[k1].labels), j2 \in 1 .. Len(oc[k2].labels) :
            oc[k1].labels[j1] = oc[k2].labels[j2] => (k1 = k2 /\ j1 = j2)

CodeSegments(oc) == {k \in 1 .. Len(oc) : oc[k].type = "Instructions"}

\* Every label operand names a label of one of the segments.
LabelsResolved(oc) ==
    \A k \in CodeSegments(oc) :
        \A j \in 1 .. Len(oc[k].instructions) :
            \A a \in 1 .. Len(oc[k].instructions[j].args) :
                ArgType(oc[k].instructions[j].opcode, a) \in {"label", "labels"}
                    => oc[k].instructions[j].args[a] \in DefinedLabels(oc)

\* Instruction j follows a va_start that no va_end has closed.
InVaList(instructions, j) ==
    \E i \in 1 .. j - 1 :
        /\ instructions[i].opcode = "va_start"
        /\ \A h \in i + 1 .. j - 1 : instructions[h].opcode # "va_end"

\* The stack calls are encoded the way the flag m selects: staged by
\* arg_push instructions and bare for m = TRUE; for m = FALSE no call is
\* immediately preceded by an arg_push instruction outside a va list.
InConvention(oc, m) ==
    \A k \in CodeSegments(oc) :
        \A j \in 1 .. Len(oc[k].instructions) :
            IsStackCall(oc[k].instructions[j].opcode) =>
                IF m THEN oc[k].instructions[j].args = <<>>
                ELSE ~(/\ j > 1
                       /\ oc[k].instructions[j - 1].opcode \in PushOpcodes
                       /\ ~InVaList(oc[k].instructions, j - 1))

Parsed == codec_pc \in {"parsed", "written", "disassembled", "assembled", "reassembled"}
Disassembled == codec_pc \in {"disassembled", "assembled", "reassembled"}
Assembled == codec_pc \in {"assembled", "reassembled"}
Valid == Parsed /\ bin.ok /\ ValidObjectCode(bin.object_code)

HasStackCall(oc, inline) ==
    \E k \in CodeSegments(oc) :
        \E j \in 1 .. Len(oc[k].instructions) :
            /\ IsStackCall(oc[k].instructions[j].opcode)
            /\ (oc[k].instructions[j].args # <<>>) = inline
            /\ inline \/ (j > 1 /\ oc[k].instructions[j - 1].opcode \in PushOpcodes)

C6_ParseWriteIdentity ==
    (Parsed /\ ~corrupted) => (bin.ok /\ segment_arrays_equal(bin.object_code, ir))

C6_Witness ==
    /\ codec_pc = "parsed"
    /\ ~corrupted
    /\ HasStackCall(ir, TRUE)
    /\ HasStackCall(ir, FALSE)
    /\ Len(ir) = 2
    /\ bin.ok
    /\ bin.object_code = ir

RoundTripClean ==
    /\ assembled.errors = <<>>
    /\ assembled.warnings = <<>>
    /\ segment_arrays_equal(assembled.object_code, bin.object_code)

OperandsOf(line, op) ==
    LET texts == operand_texts(StripLeft(line), MnemonicText[op])
    IN  [k \in DOMAIN texts |-> parse_operand(StripLeft(texts[k])).value]

StartsWith(cs, prefix) ==
    Len(cs) >= Len(prefix) /\ SubSeq(cs, 1, Len(prefix)) = prefix

\* C8: a variadic instruction is printed with all its operands in order,
\* comma separated, after the mnemonic, and each segment label on its own
\* line ending in a colon; the program of the test (switch_jmp r90, 100,
\* 101, 102; ret under label 0) gives exactly the lines the test expects.
C8_VarargDisassembly ==
    (Disassembled /\ bin.ok) =>
        /\ bin.object_code = VarargTest => asm = VarargExpected
        /\ \A k \in 1 .. Len(bin.object_code) :
            \A j \in 1 .. Len(bin.object_code[k].labels) :
                \E n \in 1 .. Len(asm) :
                    asm[n] = Digits(bin.object_code[k].labels[j]) \o <<Colon>>
        /\ \A k \in CodeSegments(bin.object_code) :
            \A j \in 1 .. Len(bin.object_code[k].instructions) :
                LET inst == bin.object_code[k].instructions[j]
                IN  (HasTail(inst.opcode) /\ TailType(inst.opcode) = "labels") =>
                        \E n \in 1 .. Len(asm) :
                            /\ StartsWith(asm[n], Indent \o MnemonicText[inst.opcode]
                                                  \o <<Space>>)
                            /\ OperandsOf(asm[n], inst.opcode) = inst.args

C8_Witness ==
    /\ codec_pc = "disassembled"
    /\ bin.ok
    /\ bin.object_code = VarargTest
    /\ asm = VarargExpected

IsPushLine(line) ==
    \E op \in PushOpcodes : StartsWith(line, Indent \o MnemonicText[op] \o <<Space>>)

PushesInVaLists(oc) ==
    {<<k, j>> \in UNION {{<<c, i>> : i \in 1 .. Len(oc[c].instructions)} :
                            c \in CodeSegments(oc)} :
        /\ oc[k].instructions[j].opcode \in PushOpcodes
        /\ InVaList(oc[k].instructions, j)}

\* C9: arg_push instructions inside a va list are printed as lines of their
\* own under either flag; the program of the test (va_start, arg_pushw
\* 1337, va_call 100, va_end, ret) gives the same lines, the arg_pushw 1337
\* line among them, for manual_stack true and false.
C9_VaListExplicit ==
    (Disassembled /\ bin.ok) =>
        /\ bin.object_code = VaListTest => asm = VaListExpected
        /\ Cardinality({n \in 1 .. Len(asm) : IsPushLine(asm[n])})
                >= Cardinality(PushesInVaLists(bin.object_code))

C9_Witness ==
    /\ codec_pc = "disassembled"
    /\ ~asm_manual_stack
    /\ bin.ok
    /\ bin.object_code = VaListTest
    /\ asm = VaListExpected

(***************************************************************************)
(* Vocabulary of the claims about the quest runner.                        *)
(***************************************************************************)
CurrentInstruction == instruction_at(quest, vm.execloc)
AtVsyncBlocking == vm.running /\ CurrentInstruction.opcode = "sync"

\* C10: for every vsync-blocking instruction a thread reaches, execute()
\* returns WaitingVsync exactly once, and the thread stays at that
\* instruction, however many host actions happen, until vsync() is called:
\* a thread that has been handed WaitingVsync and no vsync() yet is at a
\* vsync-blocking instruction for which WaitingVsync was returned once.
C10_WaitingVsyncOnce ==
    /\ vsync_returns <= 1
    /\ (vm.running /\ vm.blocked = "WaitingVsync" /\ ~vm.unblocked) =>
           (AtVsyncBlocking /\ vsync_returns = 1)

(***************************************************************************)
(* Termination and return linking of the graph builder and the query.      *)
(***************************************************************************)
\* C11: register_value_set terminates, with a ValueSet, for every graph,
\* instruction and register, graphs with cycles included: no query ends in
\* the exhausted call stack of a recursion that never returns.
C11_QueryTerminates == Queried => ~result.overflow

\* C12: create_control_flow_graph terminates on every program, programs
\* with recursive or mutually recursive subroutines included: return
\* linking never ends in the exhausted call stack.
C12_LinkingTerminates == cfg_pc # "RangeError"

\* Call blocks that have a continuation block.
CallsWithContinuation ==
    {c \in Blocks : cfg_blocks[c].branch_type = "Call" /\ c + 1 \in Blocks}

\* C13: in a built graph, for each call block with a continuation block,
\* every Return block reachable from the entry block of a call target
\* through fallthrough, jump and call edges is linked to the continuation.
C13_ReachableReturnsLinked ==
    cfg_pc = "done" =>
        \A c \in CallsWithContinuation :
            \A l \in Elems(cfg_blocks[c].branch_labels) \cap DOMAIN label_blocks :
                \A r \in ReturnBlocksOf(label_blocks[l]) :
                    c + 1 \in Elems(cfg_blocks[r].to)

(***************************************************************************)
(* Edge linking.                                                           *)
(***************************************************************************)
\* The first loop of link_blocks has run: the graph is built, or return
\* linking has exhausted the call stack after it.
EdgesLaid == cfg_pc \in {"done", "RangeError"}

\* The entry blocks of the resolvable branch labels of block b, in the order
\* of the labels.
ResolvableLabels(b) ==
    SelectSeq(cfg_blocks[b].branch_labels, LAMBDA l : l \in DOMAIN label_blocks)
Targets(b) ==
    [k \in 1 .. Len(ResolvableLabels(b)) |-> label_blocks[ResolvableLabels(b)[k]]]

\* C14: after edge linking every None or ConditionalJump block that has a
\* next block has an edge to it and an edge to the entry block of each of
\* its resolvable branch labels; the edges of a Jump block are exactly the
\* entry blocks of its resolvable branch labels, with no edge added for the
\* next block.
C14_FallthroughAndJumpEdges ==
    EdgesLaid =>
        \A b \in Blocks :
            /\ cfg_blocks[b].branch_type \in {"None", "ConditionalJump"} =>
                /\ b + 1 \in Blocks => b + 1 \in Elems(cfg_blocks[b].to)
                /\ Elems(Targets(b)) \subseteq Elems(cfg_blocks[b].to)
            /\ cfg_blocks[b].branch_type = "Jump" => cfg_blocks[b].to = Targets(b)

\* A built graph with a conditional jump that has a next block and a target
\* elsewhere, and a jump whose next block is not its target.
C14_Witness ==
    /\ cfg_pc = "done"
    /\ \E b \in Blocks :
        /\ cfg_blocks[b].branch_type = "ConditionalJump"
        /\ b + 1 \in Blocks
        /\ Elems(Targets(b)) \ {b + 1} # {}
    /\ \E j \in Blocks :
        /\ cfg_blocks[j].branch_type = "Jump"
        /\ j + 1 \in Blocks
        /\ Targets(j) # <<>>
        /\ j + 1 \notin Elems(cfg_blocks[j].to)

\* The blocks before link_blocks: no edges yet.
Unlinked(blocks) == [b \in DOMAIN blocks |-> [blocks[b] EXCEPT !.from = <<>>, !.to = <<>>]]

\* The pending return-link pairs the first loop of link_blocks collects.
PendingPairs == link_blocks_from(Unlinked(cfg_blocks), label_blocks, 1, <<>>).callers

RECURSIVE LabelReachIn(_, _)
LabelReachIn(set, n) ==
    IF n = 0 THEN set
    ELSE LabelReachIn(set \cup UNION {Elems(Targets(b)) : b \in set}, n - 1)
LabelReach(b) == LabelReachIn(Elems(Targets(b)), Len(cfg_blocks))

\* The edge for falling through from block b to the next block.
Fallthrough(b) ==
    IF cfg_blocks[b].branch_type \in {"None", "ConditionalJump"} /\ b + 1 \in Blocks
    THEN <<b + 1>> ELSE <<>>

UnresolvedLabels(b) == Elems(cfg_blocks[b].branch_labels) \ DOMAIN label_blocks

\* C16: unresolved references make neither construction nor the query
\* fail.  A branch label that addresses no segment, or a segment without
\* instructions, produces no edge: the edges of a block that is not a
\* Return block are its fallthrough edge and the entry blocks of its
\* resolvable labels, nothing else.  It produces no error: construction
\* fails only where the walk from a call comes back, along resolvable
\* labels, to a block it has visited.  register_value_set for an
\* instruction that is not part of the graph returns the empty ValueSet.
C16_UnresolvedReferencesTolerated ==
    /\ EdgesLaid =>
        \A b \in Blocks :
            cfg_blocks[b].branch_type # "Return" =>
                cfg_blocks[b].to = Fallthrough(b) \o Targets(b)
    /\ cfg_pc = "RangeError" =>
        \E c \in CallsWithContinuation :
            \E x \in {c} \cup LabelReach(c) : x \in LabelReach(x)
    /\ (Queried /\ query.instruction \notin DOMAIN cfg_instructions) =>
        result = Returned(EmptyValueSet)

\* A graph built from a program with a label that addresses no segment and
\* a label that addresses a segment without instructions, queried for an
\* instruction that is not part of it.
C16_Witness ==
    /\ cfg_pc = "done"
    /\ Queried
    /\ query.instruction \notin DOMAIN cfg_instructions
    /\ \E b \in Blocks : \E l \in UnresolvedLabels(b) :
           \A k \in 1 .. Len(segments) : l \notin Elems(segments[k].labels)
    /\ \E b \in Blocks : \E l \in UnresolvedLabels(b) :
           \E k \in 1 .. Len(segments) :
               l \in Elems(segments[k].labels) /\ segments[k].instructions = <<>>

(***************************************************************************)
(* Basic block boundaries.                                                 *)
(***************************************************************************)
ControlTransfers ==
    {"ret", "jmp", "jmp_on", "jmp_off", "switch_jmp", "call", "va_call", "switch_call"}
    \cup ThreeArgJumps

LastOf(b) == InstAt(b, cfg_blocks[b].end - 1)

\* C18: blocks end exactly at control-transfer instructions and at the
\* final instruction of a segment.  Every control-transfer instruction is
\* the last instruction of its block; a block whose last instruction is not
\* a control transfer ends its segment, has branch_type None and no labels;
\* a block ending in a control transfer is not of type None; a Return block
\* has no branch labels; a switch_jmp or switch_call block carries every
\* operand after the register as a branch label.
C18_BlockBoundaries ==
    BlocksBuilt =>
        /\ \A k \in DOMAIN cfg_instructions :
            segments[k[1]].instructions[k[2] + 1].opcode \in ControlTransfers =>
                k[2] = cfg_blocks[cfg_instructions[k]].end - 1
        /\ \A b \in Blocks :
            /\ LastOf(b).opcode \notin ControlTransfers =>
                /\ cfg_blocks[b].end = Len(segments[cfg_blocks[b].segment].instructions)
                /\ cfg_blocks[b].branch_type = "None"
                /\ cfg_blocks[b].branch_labels = <<>>
            /\ LastOf(b).opcode \in ControlTransfers => cfg_blocks[b].branch_type # "None"
            /\ cfg_blocks[b].branch_type = "Return" => cfg_blocks[b].branch_labels = <<>>
            /\ LastOf(b).opcode \in {"switch_jmp", "switch_call"} =>
                cfg_blocks[b].branch_labels = Tail1(LastOf(b).args)

\* All blocks are created; one block of two or more instructions ends in a
\* switch_jmp, one in a switch_call, and one block ends its segment with an
\* instruction that is not a control transfer.
C18_Witness ==
    /\ BlocksBuilt
    /\ \E b \in Blocks :
        /\ LastOf(b).opcode = "switch_jmp"
        /\ cfg_blocks[b].end - cfg_blocks[b].start >= 2
    /\ \E b \in Blocks : LastOf(b).opcode = "switch_call"
    /\ \E b \in Blocks : cfg_blocks[b].branch_type = "None"

(***************************************************************************)
(* Copies in the value-set query.                                          *)
(***************************************************************************)
\* C17: when the nearest write to the queried register r before the query
\* point, inside the block, is a copy `let r, s`, the query returns the
\* value set of s evaluated at the copy instruction and nothing else, also
\* when that set is empty.
C17_CopyResolvesSource ==
    Queried =>
        LET w == WritersBefore(query.register)
        IN  (w # {} /\ InstAt(QueryBlock, Max(w)).opcode = "let") =>
                result = find_value_set(cfg_blocks, segments, QueryBlock, Max(w),
                                        InstAt(QueryBlock, Max(w)).args[2])

(***************************************************************************)
(* The runner as host of the virtual machine.                              *)
(***************************************************************************)
\* The thread was handed a waiting result and the matching external
\* operation has not been invoked since.
StillBlocked == vm.running /\ vm.blocked # "None" /\ ~vm.unblocked

\* C20: after a blocking result the runner invokes the matching external
\* operation before it calls execute() again: execution_loop is never about
\* to call execute() on a thread that is still blocked.
C20_NoReentryWhileBlocked == ~(in_execution_loop /\ StillBlocked)

(***************************************************************************)
(* Instructions the value-set query has no case for.                       *)
(***************************************************************************)
Compared == cfg_pc = "compared"

\* C19: every opcode other than let and the immediate loads is opaque to
\* the query: the program with such an instruction and the program without
\* it (the one read as a removal, the other as an insertion) give the same
\* result for every register at every other instruction.
C19_OpaqueFrame == Compared => result = before

\* C19, amended: the same, for an instruction that is not the only
\* instruction of its segment.
C19_Amended == (Compared /\ ~removed.alone) => result = before

\* An arithmetic instruction on r0 between a load of r0 and the query point
\* was taken out, and the query for r0 gave the loaded value both times.
C19_Witness ==
    /\ Compared
    /\ ~removed.alone
    /\ query.register = 0
    /\ removed.instruction[1] = query.instruction[1]
    /\ removed.instruction[2] <= query.instruction[2]   \* the query point moved down
    /\ removed.instruction[2] > 0
    /\ segments[removed.instruction[1]].instructions[removed.instruction[2]].opcode = "leti"
    /\ result = Returned({1})
    /\ before = Returned({1})

(***************************************************************************)
(* The pump loop of the quest runner.                                      *)
(***************************************************************************)
\* C21: when execute() returns WaitingVsync the runner does not call
\* execute() again within the same animation frame callback: the callback
\* in which execute() returned WaitingVsync is not about to run another
\* iteration of its loop, which begins with a call of execute().
C21_VsyncEndsTheFrame == ~(in_execution_loop /\ exec_result = "WaitingVsync")

(***************************************************************************)
(* Stepping.                                                               *)
(***************************************************************************)
\* The execution loop has stopped for the first time since a request of
\* this kind.
StepAnswered(kind) ==
    ~in_execution_loop /\ step_request.kind = kind /\ step_request.answered

\* A request of this kind has been made and execute() has not run since.
StepPending(kind) ==
    /\ step_request.kind = kind
    /\ ~step_request.answered
    /\ step_request.executed = 0

Continuation == next_location(quest, step_request.from)

\* C22: step_over on a call-classified instruction adds a stepping
\* breakpoint at the line of the instruction that follows the call, and the
\* run that follows stops at that instruction (unless a breakpoint of the
\* user stops it earlier, the thread ends, or a stepping breakpoint of an
\* earlier request was still set); on any other instruction the runner
\* stops after the one execute() that follows the request.
C22_StepOver ==
    /\ (StepPending("over") /\ step_request.call) =>
           instruction_at(quest, Continuation).line_no \in stepping_breakpoints
    /\ (StepAnswered("over") /\ step_request.call /\ step_request.fresh) =>
           \/ step_request.cause \in {"user", "halted"}
           \/ step_request.at = Continuation
    /\ (StepAnswered("over") /\ ~step_request.call) => step_request.executed = 1

Entry == ExecutionLocation(step_request.enters, 0)

\* C23: step_in on a call-classified instruction adds a stepping breakpoint
\* at the first instruction of the subroutine the call enters (for
\* switch_call the one the register selects), and the run that follows
\* stops there (unless a breakpoint of the user stops it earlier, the thread
\* ends, or a stepping breakpoint of an earlier request was still set); on
\* any other instruction step_in does what step_over does.
C23_StepIn ==
    /\ (StepPending("in") /\ step_request.call /\ step_request.enters # -1) =>
           instruction_at(quest, Entry).line_no \in stepping_breakpoints
    /\ (StepAnswered("in") /\ step_request.call /\ step_request.enters # -1
            /\ step_request.fresh) =>
           \/ step_request.cause \in {"user", "halted"}
           \/ step_request.at = Entry
    /\ (vm.running
            /\ ~get_step_innable_instruction_label_argument(CurrentInstruction).defined) =>
           step_in(vm, quest, break_on_next, stepping_breakpoints)
               = step_over(vm, quest, break_on_next, stepping_breakpoints)

\* C26: a single-step request is one-shot: a run that follows run() or
\* resume() with no step request outstanding never stops because of
\* break_on_next alone; it stops at a line of the user's breakpoints or of
\* the stepping breakpoints, or on Halted.
C26_StepIsOneShot ==
    (~in_execution_loop /\ step_request.kind = "run" /\ step_request.answered) =>
        step_request.cause # "flag"

\* C27: at most one execution_loop callback is pending at any time, and
\* when the execution loop stops, at a breakpoint or on Halted, none is
\* pending: nothing calls execute() again before the host calls resume()
\* or run().
C27_NothingPendingAfterStop ==
    /\ [](pending_frames <= 1)
    /\ [][(in_execution_loop /\ ~in_execution_loop') => pending_frames' = 0]_vars

(***************************************************************************)
(* Edge lists.                                                             *)
(***************************************************************************)
\* The number of occurrences of x in the sequence s.
Occurrences(s, x) == Cardinality({k \in 1 .. Len(s) : s[k] = x})

\* C25: the predecessor and successor lists agree: for all blocks a and b,
\* b occurs in a.to as many times as a occurs in b.from.
C25_EdgeListsAgree ==
    \A a \in 1 .. Len(cfg_blocks) : \A b \in 1 .. Len(cfg_blocks) :
        Occurrences(cfg_blocks[a].to, b) = Occurrences(cfg_blocks[b].from, a)

\* A graph in which some block is linked twice to the same block, and some
\* block has two different successors.
C25_Witness ==
    /\ EdgesLaid
    /\ \E a \in 1 .. Len(cfg_blocks) : \E b \in 1 .. Len(cfg_blocks) :
           Occurrences(cfg_blocks[a].to, b) = 2
    /\ \E a \in 1 .. Len(cfg_blocks) :
           Cardinality(Elems(cfg_blocks[a].to)) = 2

\* Block b is the last block of its segment.
LastOfSegment(b) ==
    b + 1 \in Blocks => cfg_blocks[b + 1].segment # cfg_blocks[b].segment

\* The segments with instructions that come after the segment of block b.
LaterSegments(b) ==
    {s \in 1 .. Len(segments) :
        s > cfg_blocks[b].segment /\ segments[s].instructions # <<>>}

\* The first block of the first of them.
NextSegmentBlock(b) ==
    cfg_instructions[<<CHOOSE s \in LaterSegments(b) :
                          \A t \in LaterSegments(b) : s <= t, 0>>]

\* C29: fallthrough and continuation cross segment boundaries.  A None or
\* ConditionalJump block that is the last block of its segment falls through
\* to the first block of the next segment with instructions, and a Call
\* block that is the last of its segment has that block as its continuation;
\* where no segment with instructions follows, the block has no fallthrough
\* edge and no continuation.
C29_AcrossSegments ==
    EdgesLaid =>
        \A b \in Blocks :
            LastOfSegment(b) =>
                /\ cfg_blocks[b].branch_type \in {"None", "ConditionalJump"} =>
                       IF LaterSegments(b) # {}
                       THEN cfg_blocks[b].to = <<NextSegmentBlock(b)>> \o Targets(b)
                       ELSE cfg_blocks[b].to = Targets(b)
                /\ cfg_blocks[b].branch_type = "Call" =>
                       IF LaterSegments(b) # {}
                       THEN <<b, NextSegmentBlock(b)>> \in Elems(PendingPairs)
                       ELSE \A p \in Elems(PendingPairs) : p[1] # b

\* A built graph in which the last block of the first segment falls through
\* into the second segment, whose last block is a call without continuation.
C29_Witness ==
    /\ cfg_pc = "done"
    /\ \E b \in Blocks :
        /\ cfg_blocks[b].branch_type \in {"None", "ConditionalJump"}
        /\ LastOfSegment(b)
        /\ b + 1 \in Blocks
        /\ Head(cfg_blocks[b].to) = b + 1
    /\ cfg_blocks[Len(cfg_blocks)].branch_type = "Call"
(***************************************************************************)
(* C28: in the undo tracking of the assembly editor, after any edits,      *)
(* undos and redos of a model, can_undo is false exactly when the current  *)
(* version is the initial version, and can_redo is true exactly when a     *)
(* later version of the current history can still be redone.               *)
(***************************************************************************)
C28_UndoTracking ==
    editor_model.defined =>
        /\ (~can_undo) <=>
                (editor_model.alternative_version_id = undo_versions.initial_version)
        /\ can_redo <=> (editor_model.future # <<>>)

(***************************************************************************)
(* C24: set_inline_args_mode(x) is rejected while the assembly has issues: *)
(* inline_args_mode, the manual_stack setting of the analyser and the      *)
(* editor model are left unchanged.  Without issues, afterwards            *)
(* inline_args_mode = x, the manual_stack of the analyser is not x, and    *)
(* the model is disassembled again with manual_stack = not x.              *)
(***************************************************************************)
Rejected ==
    <<inline_args_mode, analyser_manual_stack, editor_model>> = last_set.before
Redisassembled ==
    /\ editor_model.defined
    /\ editor_model.id # last_set.before[3].id
    /\ editor_model.manual_stack = ~last_set.x
C24_SetInlineArgsMode ==
    last_set.called =>
        IF last_set.issues
        THEN Rejected
        ELSE /\ inline_args_mode = last_set.x
             /\ analyser_manual_stack = ~last_set.x
             /\ Redisassembled

\* C24 as it holds: the model is disassembled again when a quest is loaded;
\* without a current quest the model is undefined after the call.
C24_Amended ==
    last_set.called =>
        IF last_set.issues
        THEN Rejected
        ELSE /\ inline_args_mode = last_set.x
             /\ analyser_manual_stack = ~last_set.x
             /\ IF last_set.loaded THEN Redisassembled ELSE ~editor_model.defined
C24_Witness ==
    /\ last_set.called
    /\ ~last_set.issues
    /\ last_set.loaded
    /\ last_set.before[1] = TRUE
    /\ last_set.before[3].defined
    /\ last_set.before[3].future # <<>>
    /\ ~inline_args_mode
    /\ editor_model.defined
    /\ editor_model.manual_stack

(***************************************************************************)
(* C30: for any sequence of start_rendering() and stop_rendering() calls,  *)
(* after stop_rendering() returns no call_render callback is pending and   *)
(* render() is not invoked again until start_rendering() is called; at     *)
(* most one render loop is active at any time.                             *)
(***************************************************************************)
C30_RenderLoop ==
    /\ rendering_stopped => animation_frames = {}
    /\ ~rendered_while_stopped
    /\ Cardinality(animation_frames) <= 1

====
